---- MODULE Spec2Model ----
(***************************************************************************)
(* Verification model of the terminal games.  Chess: the position evaluator,*)
(* minimax with alpha-beta pruning, the root move selector and the         *)
(* captured-piece count (chess_ai.py), and the application that runs the   *)
(* search in the background (app.py, models.py).  The rules library        *)
(* (python-chess) is an external collaborator; a position is the record of *)
(* the answers it gives (piece placement, side to move, legal moves,       *)
(* terminal predicates).  Tic-tac-toe, snake and tetris: the pure          *)
(* functions of their game_logic.py, one action per operation.  Each       *)
(* specification runs one of the programs and holds the others switched    *)
(* off.                                                                    *)
(***************************************************************************)
EXTENDS Integers, Sequences, FiniteSets, TLC

VARIABLES
  e_pc,        \* evaluator run: "call" before evaluate_board, "done" after
  e_pos,       \* evaluator run: the position handed to evaluate_board
  e_score,     \* evaluator run: the value evaluate_board returned
  pc,          \* search run: control point of the running call
  game,        \* search run: the rules oracle's game (fixed during a run)
  entry,       \* search run: the call under examination and its arguments
  move_stack,  \* search run: board.move_stack, the moves pushed on the board
  frames,      \* search run: call stack of minimax activations
  root,        \* search run: locals of get_best_move
  ret,         \* search run: value returned by the last finished minimax call
  result,      \* search run: what the examined call returned
  log,         \* search run: history of nodes entered and leaves evaluated
  c_pc,        \* capture run: "call" before get_captured_pieces, "done" after
  c_board,     \* capture run: the board handed to get_captured_pieces
  c_captured,  \* capture run: the dictionary get_captured_pieces returned
  c_history,   \* capture run: how the board came about (kept for the properties)
  a_pc,        \* application: "init" after ChessApp(), "run" once mounted
  state,       \* application: self.state, the current GameState
  boards,      \* application: the chess.Board objects alive, by identity
  executor,    \* application: the futures submitted and not yet completed
  t_pc,        \* tic-tac-toe: "run" while the game is being played
  t_state,     \* tic-tac-toe: the current GameState
  s_pc,        \* snake: "run" while the game is being played
  s_state,     \* snake: the current GameState
  s_hist,      \* snake: history kept for the properties and the bounds
  tet_pc,      \* tetris: "run" while the game is being played
  tet_state,   \* tetris: the current GameState
  tet_hist     \* tetris: the bounds of the run and what has been spent of them

evalVars == <<e_pc, e_pos, e_score>>
searchVars == <<pc, game, entry, move_stack, frames, root, ret, result, log>>
captureVars == <<c_pc, c_board, c_captured, c_history>>
appVars == <<a_pc, state, boards, executor>>
chessVars == <<evalVars, searchVars, captureVars, appVars>>
ticVars == <<t_pc, t_state>>
snakeVars == <<s_pc, s_state, s_hist>>
tetrisVars == <<tet_pc, tet_state, tet_hist>>
gamesVars == <<ticVars, snakeVars, tetrisVars>>
vars == <<e_pc, e_pos, e_score, pc, game, entry, move_stack, frames, root, ret, result, log,
          c_pc, c_board, c_captured, c_history, a_pc, state, boards, executor,
          t_pc, t_state, s_pc, s_state, s_hist, tet_pc, tet_state, tet_hist>>

(***************************************************************************)
(* Piece types and colours as in python-chess.                             *)
(***************************************************************************)
PAWN == 1
KNIGHT == 2
BISHOP == 3
ROOK == 4
QUEEN == 5
KING == 6
WHITE == TRUE
BLACK == FALSE

PIECE_TYPES == {PAWN, KNIGHT, BISHOP, ROOK, QUEEN, KING}
SQUARES == 0..63
None == [piece_type |-> 0, color |-> FALSE]

PIECE_VALUES_QueenTenfold ==
  [pt \in PIECE_TYPES |->
     CASE pt = PAWN -> 100
       [] pt = KNIGHT -> 320
       [] pt = BISHOP -> 330
       [] pt = ROOK -> 500
       [] pt = QUEEN -> 9000
       [] pt = KING -> 20000]

PIECE_VALUES ==
  [pt \in PIECE_TYPES |->
     CASE pt = PAWN -> 100
       [] pt = KNIGHT -> 320
       [] pt = BISHOP -> 330
       [] pt = ROOK -> 500
       [] pt = QUEEN -> 900
       [] pt = KING -> 20000]

(***************************************************************************)
(* Piece-square tables, in source order (entry 0 first).                   *)
(***************************************************************************)
PAWN_TABLE ==
  <<
      0,   0,   0,   0,   0,   0,   0,   0,
     50,  50,  50,  50,  50,  50,  50,  50,
     10,  10,  20,  30,  30,  20,  10,  10,
      5,   5,  10,  25,  25,  10,   5,   5,
      0,   0,   0,  20,  20,   0,   0,   0,
      5,  -5, -10,   0,   0, -10,  -5,   5,
      5,  10,  10, -20, -20,  10,  10,   5,
      0,   0,   0,   0,   0,   0,   0,   0
  >>

KNIGHT_TABLE ==
  <<
    -50, -40, -30, -30, -30, -30, -40, -50,
    -40, -20,   0,   0,   0,   0, -20, -40,
    -30,   0,  10,  15,  15,  10,   0, -30,
    -30,   5,  15,  20,  20,  15,   5, -30,
    -30,   0,  15,  20,  20,  15,   0, -30,
    -30,   5,  10,  15,  15,  10,   5, -30,
    -40, -20,   0,   5,   5,   0, -20, -40,
    -50, -40, -30, -30, -30, -30, -40, -50
  >>

BISHOP_TABLE ==
  <<
    -20, -10, -10, -10, -10, -10, -10, -20,
    -10,   0,   0,   0,   0,   0,   0, -10,
    -10,   0,   5,  10,  10,   5,   0, -10,
    -10,   5,   5,  10,  10,   5,   5, -10,
    -10,   0,  10,  10,  10,  10,   0, -10,
    -10,  10,  10,  10,  10,  10,  10, -10,
    -10,   5,   0,   0,   0,   0,   5, -10,
    -20, -10, -10, -10, -10, -10, -10, -20
  >>

ROOK_TABLE ==
  <<
      0,   0,   0,   0,   0,   0,   0,   0,
      5,  10,  10,  10,  10,  10,  10,   5,
     -5,   0,   0,   0,   0,   0,   0,  -5,
     -5,   0,   0,   0,   0,   0,   0,  -5,
     -5,   0,   0,   0,   0,   0,   0,  -5,
     -5,   0,   0,   0,   0,   0,   0,  -5,
     -5,   0,   0,   0,   0,   0,   0,  -5,
      0,   0,   0,   5,   5,   0,   0,   0
  >>

QUEEN_TABLE ==
  <<
    -20, -10, -10,  -5,  -5, -10, -10, -20,
    -10,   0,   0,   0,   0,   0,   0, -10,
    -10,   0,   5,   5,   5,   5,   0, -10,
     -5,   0,   5,   5,   5,   5,   0,  -5,
      0,   0,   5,   5,   5,   5,   0,  -5,
    -10,   5,   5,   5,   5,   5,   0, -10,
    -10,   0,   5,   0,   0,   0,   0, -10,
    -20, -10, -10,  -5,  -5, -10, -10, -20
  >>

KING_MIDDLEGAME_TABLE ==
  <<
    -30, -40, -40, -50, -50, -40, -40, -30,
    -30, -40, -40, -50, -50, -40, -40, -30,
    -30, -40, -40, -50, -50, -40, -40, -30,
    -30, -40, -40, -50, -50, -40, -40, -30,
    -20, -30, -30, -40, -40, -30, -30, -20,
    -10, -20, -20, -20, -20, -20, -20, -10,
     20,  20,   0,   0,   0,   0,  20,  20,
     20,  30,  10,   0,   0,  10,  30,  20
  >>

PIECE_TABLES ==
  [pt \in PIECE_TYPES |->
     CASE pt = PAWN -> PAWN_TABLE
       [] pt = KNIGHT -> KNIGHT_TABLE
       [] pt = BISHOP -> BISHOP_TABLE
       [] pt = ROOK -> ROOK_TABLE
       [] pt = QUEEN -> QUEEN_TABLE
       [] pt = KING -> KING_MIDDLEGAME_TABLE]

square_rank(square) == square \div 8
square_file(square) == square % 8

\* table[index] of a 0-based Python list
TableAt(table, index) == table[index + 1]

get_piece_square_value_NoMirror(piece_type, square, is_white) ==
  IF piece_type \notin DOMAIN PIECE_TABLES THEN 0
  ELSE TableAt(PIECE_TABLES[piece_type], square)

get_piece_square_value(piece_type, square, is_white) ==
  IF piece_type \notin DOMAIN PIECE_TABLES THEN 0
  ELSE LET index == IF is_white
                    THEN (7 - square_rank(square)) * 8 + square_file(square)
                    ELSE square
       IN  TableAt(PIECE_TABLES[piece_type], index)

(***************************************************************************)
(* Boards are written as 64 FEN letters, a1 first (rank 1 is the first     *)
(* row), upper case White, lower case Black, "." empty.                    *)
(***************************************************************************)
PieceOfLetter(ch) ==
  CASE ch = "P" -> [piece_type |-> PAWN, color |-> WHITE]
    [] ch = "N" -> [piece_type |-> KNIGHT, color |-> WHITE]
    [] ch = "B" -> [piece_type |-> BISHOP, color |-> WHITE]
    [] ch = "R" -> [piece_type |-> ROOK, color |-> WHITE]
    [] ch = "Q" -> [piece_type |-> QUEEN, color |-> WHITE]
    [] ch = "K" -> [piece_type |-> KING, color |-> WHITE]
    [] ch = "p" -> [piece_type |-> PAWN, color |-> BLACK]
    [] ch = "n" -> [piece_type |-> KNIGHT, color |-> BLACK]
    [] ch = "b" -> [piece_type |-> BISHOP, color |-> BLACK]
    [] ch = "r" -> [piece_type |-> ROOK, color |-> BLACK]
    [] ch = "q" -> [piece_type |-> QUEEN, color |-> BLACK]
    [] ch = "k" -> [piece_type |-> KING, color |-> BLACK]
    [] OTHER -> None

piece_at(board, square) == PieceOfLetter(board[square + 1])

\* lines 128-145: what one square adds to the score
SquareScore(board, square) ==
  LET piece == piece_at(board, square)
  IN  IF piece = None THEN 0
      ELSE LET value == PIECE_VALUES[piece.piece_type]
               positional == get_piece_square_value(piece.piece_type, square,
                                                    piece.color = WHITE)
               total == value + positional
           IN  IF piece.color = WHITE THEN total ELSE 0 - total

\* the loop over chess.SQUARES of evaluate_board for the squares first..last
\* (the running sum of integers, split in halves to keep the evaluation shallow)
RECURSIVE ScoreSquares(_, _, _)
ScoreSquares(board, first, last) ==
  IF first = last THEN SquareScore(board, first)
  ELSE LET mid == (first + last) \div 2
       IN  ScoreSquares(board, first, mid) + ScoreSquares(board, mid + 1, last)

evaluate_board_NoMobility(pos) ==
  IF pos.is_checkmate THEN (IF pos.turn = WHITE THEN -20000 ELSE 20000)
  ELSE IF pos.is_stalemate \/ pos.is_insufficient_material THEN 0
  ELSE ScoreSquares(pos.board, 0, 63)

evaluate_board_MaterialFirst(pos) ==
  LET score == ScoreSquares(pos.board, 0, 63)
      mobility == Len(pos.legal_moves)
      full == IF pos.turn = WHITE THEN score + mobility * 2 ELSE score - mobility * 2
  IN  IF pos.is_checkmate THEN full + (IF pos.turn = WHITE THEN -20000 ELSE 20000)
      ELSE IF pos.is_stalemate \/ pos.is_insufficient_material THEN 0
      ELSE full

evaluate_board_MobilityForWhite(pos) ==
  IF pos.is_checkmate THEN (IF pos.turn = WHITE THEN -20000 ELSE 20000)
  ELSE IF pos.is_stalemate \/ pos.is_insufficient_material THEN 0
  ELSE ScoreSquares(pos.board, 0, 63) + Len(pos.legal_moves) * 2

evaluate_board_MateSignSwapped(pos) ==
  IF pos.is_checkmate THEN (IF pos.turn = WHITE THEN 20000 ELSE -20000)
  ELSE IF pos.is_stalemate \/ pos.is_insufficient_material THEN 0
  ELSE LET score == ScoreSquares(pos.board, 0, 63)
           mobility == Len(pos.legal_moves)
       IN  IF pos.turn = WHITE THEN score + mobility * 2
           ELSE score - mobility * 2

evaluate_board(pos) ==
  IF pos.is_checkmate THEN (IF pos.turn = WHITE THEN -20000 ELSE 20000)
  ELSE IF pos.is_stalemate \/ pos.is_insufficient_material THEN 0
  ELSE LET score == ScoreSquares(pos.board, 0, 63)
           mobility == Len(pos.legal_moves)
       IN  IF pos.turn = WHITE THEN score + mobility * 2
           ELSE score - mobility * 2

(***************************************************************************)
(* Positions.  A position is what the rules library answers about a board: *)
(* the placement, the side to move, the legal moves (named 1..n in the     *)
(* library's enumeration order) and the terminal predicates.               *)
(***************************************************************************)
StartBoard ==
  << "R", "N", "B", "Q", "K", "B", "N", "R",
     "P", "P", "P", "P", "P", "P", "P", "P",
     ".", ".", ".", ".", ".", ".", ".", ".",
     ".", ".", ".", ".", ".", ".", ".", ".",
     ".", ".", ".", ".", ".", ".", ".", ".",
     ".", ".", ".", ".", ".", ".", ".", ".",
     "p", "p", "p", "p", "p", "p", "p", "p",
     "r", "n", "b", "q", "k", "b", "n", "r" >>

\* 1. e4 e5 2. Nf3 Nc6 3. Bc4 Bc5 (level material)
ItalianBoard ==
  << "R", "N", "B", "Q", "K", ".", ".", "R",
     "P", "P", "P", "P", ".", "P", "P", "P",
     ".", ".", ".", ".", ".", "N", ".", ".",
     ".", ".", "B", ".", "P", ".", ".", ".",
     ".", ".", "b", ".", "p", ".", ".", ".",
     ".", ".", "n", ".", ".", ".", ".", ".",
     "p", "p", "p", "p", ".", "p", "p", "p",
     "r", ".", "b", "q", "k", ".", "n", "r" >>

\* White king g1, rook a1, pawns f2 g2 h2; Black king g8, pawns f7 g7 h7
RookUpBoard ==
  << "R", ".", ".", ".", ".", ".", "K", ".",
     ".", ".", ".", ".", ".", "P", "P", "P",
     ".", ".", ".", ".", ".", ".", ".", ".",
     ".", ".", ".", ".", ".", ".", ".", ".",
     ".", ".", ".", ".", ".", ".", ".", ".",
     ".", ".", ".", ".", ".", ".", ".", ".",
     ".", ".", ".", ".", ".", "p", "p", "p",
     ".", ".", ".", ".", ".", ".", "k", "." >>

\* White king h1, pawn h2; Black king b8, queen d4, knight f6
QueenDownBoard ==
  << ".", ".", ".", ".", ".", ".", ".", "K",
     ".", ".", ".", ".", ".", ".", ".", "P",
     ".", ".", ".", ".", ".", ".", ".", ".",
     ".", ".", ".", "q", ".", ".", ".", ".",
     ".", ".", ".", ".", ".", ".", ".", ".",
     ".", ".", ".", ".", ".", "n", ".", ".",
     ".", ".", ".", ".", ".", ".", ".", ".",
     ".", "k", ".", ".", ".", ".", ".", "." >>

\* White king e1, Black king e8, nothing else
BareKingsBoard ==
  << ".", ".", ".", ".", "K", ".", ".", ".",
     ".", ".", ".", ".", ".", ".", ".", ".",
     ".", ".", ".", ".", ".", ".", ".", ".",
     ".", ".", ".", ".", ".", ".", ".", ".",
     ".", ".", ".", ".", ".", ".", ".", ".",
     ".", ".", ".", ".", ".", ".", ".", ".",
     ".", ".", ".", ".", ".", ".", ".", ".",
     ".", ".", ".", ".", "k", ".", ".", "." >>

\* the most material one side can have: nine queens (eight of them promoted
\* pawns), two rooks, two bishops and two knights against a bare king
HeavyWhiteBoard ==
  << ".", ".", ".", ".", "K", ".", ".", ".",
     ".", ".", ".", ".", ".", ".", ".", ".",
     ".", ".", "B", "N", "N", "B", ".", ".",
     ".", ".", "Q", "Q", "Q", "Q", ".", ".",
     ".", ".", "Q", "Q", "Q", "Q", ".", ".",
     ".", ".", ".", "Q", ".", ".", ".", ".",
     "R", "R", ".", ".", ".", ".", ".", ".",
     ".", ".", ".", ".", "k", ".", ".", "." >>

HeavyBlackBoard ==
  << ".", ".", ".", ".", "K", ".", ".", ".",
     "r", "r", ".", ".", ".", ".", ".", ".",
     ".", ".", ".", "q", ".", ".", ".", ".",
     ".", ".", "q", "q", "q", "q", ".", ".",
     ".", ".", "q", "q", "q", "q", ".", ".",
     ".", ".", "b", "n", "n", "b", ".", ".",
     ".", ".", ".", ".", ".", ".", ".", ".",
     ".", ".", ".", ".", "k", ".", ".", "." >>

PieceLetters == {"P", "N", "B", "R", "Q", "K", "p", "n", "b", "r", "q", "k"}

\* board.set_piece_at(square, piece)
set_piece_at(board, square, letter) == [board EXCEPT ![square + 1] = letter]

\* legal moves are named by their place in the library's enumeration
MoveList(n) == [i \in 1..n |-> i]

\* The terminal predicates the library can report together: checkmate and
\* stalemate both mean that there is no legal move; insufficient material,
\* the seventy-five-move rule and fivefold repetition end the game while
\* legal moves exist.
Statuses == {"none", "checkmate", "stalemate", "insufficient", "other_draw"}

MakePosition(board, turn, status, n) ==
  [board |-> board,
   turn |-> turn,
   legal_moves |-> IF status \in {"checkmate", "stalemate"} THEN << >> ELSE MoveList(n),
   is_checkmate |-> (status = "checkmate"),
   is_stalemate |-> (status = "stalemate"),
   is_insufficient_material |-> (status = "insufficient"),
   is_game_over |-> (status # "none")]

\* chess.Board(): the standard starting position, White to move, 20 legal moves
StartPosition == MakePosition(StartBoard, WHITE, "none", 20)

(***************************************************************************)
(* Evaluator run: one call of evaluate_board on a position.                *)
(***************************************************************************)
MaxMobility == 3

\* the largest number of legal moves a chess position is known to have
MaxLegalMoves == 218

HeavyBoards == {HeavyWhiteBoard, HeavyBlackBoard}

BaseBoards ==
  {StartBoard, ItalianBoard, RookUpBoard, QueenDownBoard, BareKingsBoard} \cup HeavyBoards

\* the bare-kings board with one more piece on any empty square
OneMoreBoards ==
  {set_piece_at(BareKingsBoard, sq, l) :
     sq \in {s \in SQUARES : BareKingsBoard[s + 1] = "."}, l \in PieceLetters}

EvalPositions ==
  {StartPosition} \cup
  {MakePosition(b, t, st, n) :
     b \in BaseBoards \cup OneMoreBoards, t \in BOOLEAN, st \in Statuses,
     n \in 1..MaxMobility}
  \cup {MakePosition(b, t, st, MaxLegalMoves) :
          b \in HeavyBoards, t \in BOOLEAN, st \in Statuses}

NoPosition == MakePosition(BareKingsBoard, WHITE, "none", 1)

SearchOff ==
  /\ pc = "off"
  /\ game = [script |-> 0, a |-> 0, b |-> 0, turn |-> WHITE]
  /\ entry = [fn |-> "none", depth |-> 0, maximizing |-> FALSE, alpha |-> 0, beta |-> 0]
  /\ move_stack = << >>
  /\ frames = << >>
  /\ root = [i |-> 0, best_value |-> 0, best_moves |-> << >>, is_white |-> FALSE]
  /\ ret = 0
  /\ result = [kind |-> "none", value |-> 0]
  /\ log = [entered |-> << >>, evaluated |-> {}, pushes |-> 0, cutoffs |-> 0,
           returned_from |-> << >>, root_values |-> << >>,
           returned_call |-> [depth |-> 0, alpha |-> 0, beta |-> 0, maximizing |-> FALSE]]

NoCaptured == [color \in BOOLEAN |-> << >>]

\* None where the code has an Optional[int] square
NoSquare == 0 - 1

NoState ==
  [board |-> 0, cursor_square |-> 0, selected_square |-> NoSquare,
   config |-> [player_color |-> WHITE, difficulty |-> 0], is_thinking |-> FALSE,
   last_move_from |-> NoSquare, last_move_to |-> NoSquare]

AppOff ==
  /\ a_pc = "off"
  /\ state = NoState
  /\ boards = << >>
  /\ executor = << >>


\* a board whose history is not recorded
NoHistory == [kind |-> "unknown", color |-> WHITE, lost |-> NoCaptured]

\* the other games are not running
TicOff ==
  /\ t_pc = "off"
  /\ t_state = [board |-> << >>, cursor_position |-> 0, is_game_over |-> FALSE,
                winner |-> "None", winning_cells |-> << >>]

SnakeOff ==
  /\ s_pc = "off"
  /\ s_state = [snake |-> [head |-> [x |-> 0, y |-> 0], velocity |-> [x |-> 0, y |-> 0],
                           cells |-> << >>, max_cells |-> 0],
                apple |-> [x |-> 0, y |-> 0], score |-> 0, high_score |-> 0,
                is_game_over |-> FALSE, is_paused |-> FALSE]
  /\ s_hist = [moved |-> [x |-> 0, y |-> 0], ticks |-> 0, turns |-> 0]

TetrisOff ==
  /\ tet_pc = "off"
  /\ tet_state = [board |-> << >>, current_piece |-> [shape |-> << >>, color |-> 0],
                  position |-> [x |-> 0, y |-> 0], score |-> 0, high_score |-> 0,
                  level |-> 0, lines_cleared |-> 0, combo |-> 0,
                  last_clear_was_tetris |-> FALSE, is_game_over |-> FALSE,
                  is_paused |-> FALSE, clearing_rows |-> << >>]
  /\ tet_hist = [locks |-> 0, steers |-> 0,
                 limits |-> [locks |-> 0, steers |-> 0, score |-> 0]]

GamesOff == TicOff /\ SnakeOff /\ TetrisOff

CaptureOff ==
  /\ c_pc = "off"
  /\ c_board = BareKingsBoard
  /\ c_captured = NoCaptured
  /\ c_history = NoHistory

InitEval ==
  /\ e_pc = "call"
  /\ e_pos \in EvalPositions
  /\ e_score = 0
  /\ SearchOff
  /\ CaptureOff
  /\ AppOff
  /\ GamesOff

EvaluateBoard ==
  /\ e_pc = "call"
  /\ e_score' = evaluate_board(e_pos)
  /\ e_pc' = "done"
  /\ UNCHANGED <<gamesVars, e_pos, searchVars, captureVars, appVars>>

NextEval == EvaluateBoard

SpecEval == InitEval /\ [][NextEval]_vars

(***************************************************************************)
(* The rules oracle during a search.  A game fixes what the library        *)
(* answers after every sequence of moves from the root: the position       *)
(* reached by the moves on board.move_stack.  Pushing a move passes the    *)
(* turn to the other side.  Games are either scripted (a table of          *)
(* positions) or generated from two seeds.                                 *)
(***************************************************************************)
MaxDepth == 3
MaxMoves == 3
MaxSeedA == 8
MaxSeedB == 30
RecursionLimit == MaxDepth + 2

SearchBoards == <<ItalianBoard, BareKingsBoard, RookUpBoard, QueenDownBoard>>

StatusTable ==
  <<"none", "none", "none", "none", "none", "none",
    "checkmate", "stalemate", "insufficient", "other_draw">>

Front(seq) == SubSeq(seq, 1, Len(seq) - 1)
Last(seq) == seq[Len(seq)]

RECURSIVE PathHash(_, _)
PathHash(g, path) ==
  IF path = << >> THEN g.b
  ELSE (PathHash(g, Front(path)) * g.a + 7 * Last(path) + 3) % 211

Node(status, board, n) == [status |-> status, board |-> board, n |-> n]

\* the board with the given pieces, each a pair <<square, letter>>
Setup(pieces) ==
  [i \in 1..64 |->
     IF \E pc_ \in pieces : pc_[1] = i - 1
     THEN (CHOOSE pc_ \in pieces : pc_[1] = i - 1)[2]
     ELSE "."]

SwapColour(ch) ==
  CASE ch = "P" -> "p" [] ch = "N" -> "n" [] ch = "B" -> "b"
    [] ch = "R" -> "r" [] ch = "Q" -> "q" [] ch = "K" -> "k"
    [] ch = "p" -> "P" [] ch = "n" -> "N" [] ch = "b" -> "B"
    [] ch = "r" -> "R" [] ch = "q" -> "Q" [] ch = "k" -> "K"
    [] OTHER -> "."

\* the same board seen from the other side: ranks flipped, colours swapped
Mirror(board) ==
  [i \in 1..64 |->
     SwapColour(board[(7 - square_rank(i - 1)) * 8 + square_file(i - 1) + 1])]

\* White: Ka1 Ra7 Rb6, Black: Kh8, White to move.  Move 1 is Rb8 mate; move 2
\* is Rc6, after which Black's only move Kg8 allows Rc8 mate (there move 2).
\* The move lists keep only the moves named.
MateRaceNodes ==
  (<< >> :> Node("none", Setup({<<0, "K">>, <<48, "R">>, <<41, "R">>, <<63, "k">>}), 2))
  @@ (<<1>> :> Node("checkmate", Setup({<<0, "K">>, <<48, "R">>, <<57, "R">>, <<63, "k">>}), 0))
  @@ (<<2>> :> Node("none", Setup({<<0, "K">>, <<48, "R">>, <<42, "R">>, <<63, "k">>}), 1))
  @@ (<<2, 1>> :> Node("none", Setup({<<0, "K">>, <<48, "R">>, <<42, "R">>, <<62, "k">>}), 2))
  @@ (<<2, 1, 1>> :> Node("none", Setup({<<1, "K">>, <<48, "R">>, <<42, "R">>, <<62, "k">>}), 1))
  @@ (<<2, 1, 2>> :> Node("checkmate", Setup({<<0, "K">>, <<48, "R">>, <<58, "R">>, <<62, "k">>}), 0))

\* RookUpBoard, White to move: move 1 is Kf1, move 2 is Ra8 mate, move 3 is h3
MateInOneNodes ==
  (<< >> :> Node("none", RookUpBoard, 3))
  @@ (<<1>> :> Node("none", set_piece_at(set_piece_at(RookUpBoard, 6, "."), 5, "K"), 2))
  @@ (<<2>> :> Node("checkmate", set_piece_at(set_piece_at(RookUpBoard, 0, "."), 56, "R"), 0))
  @@ (<<3>> :> Node("none", set_piece_at(set_piece_at(RookUpBoard, 15, "."), 23, "P"), 2))

MirrorNodes(nodes) == [path \in DOMAIN nodes |-> [nodes[path] EXCEPT !.board = Mirror(@)]]

Scripts ==
  << [turn |-> WHITE, nodes |-> MateRaceNodes],
     [turn |-> BLACK, nodes |-> MirrorNodes(MateRaceNodes)],
     [turn |-> WHITE, nodes |-> MateInOneNodes],
     [turn |-> BLACK, nodes |-> MirrorNodes(MateInOneNodes)] >>

NodeOf(g, path) ==
  IF g.script > 0
  THEN IF path \in DOMAIN Scripts[g.script].nodes THEN Scripts[g.script].nodes[path]
       ELSE Node("none", BareKingsBoard, 1)
  ELSE LET x == PathHash(g, path)
       IN  Node(StatusTable[(x % 10) + 1],
                SearchBoards[((x \div 3) % 4) + 1],
                ((x \div 10) % MaxMoves) + 1)

TurnAfter(g, path) == IF Len(path) % 2 = 0 THEN g.turn ELSE ~g.turn

\* the position on the board when board.move_stack = path
Position(g, path) ==
  LET nd == NodeOf(g, path)
  IN  MakePosition(nd.board, TurnAfter(g, path), nd.status, nd.n)

Games ==
  {[script |-> 0, a |-> a, b |-> b, turn |-> t] :
     a \in 1..MaxSeedA, b \in 0..MaxSeedB, t \in BOOLEAN}
  \cup {[script |-> k, a |-> 0, b |-> 0, turn |-> Scripts[k].turn] : k \in DOMAIN Scripts}

(***************************************************************************)
(* Search run: one call of minimax or of get_best_move, executed step by   *)
(* step.  A frame is one activation of minimax.                            *)
(***************************************************************************)
PosInf == 1000000
NegInf == 0 - PosInf

Max(x, y) == IF x >= y THEN x ELSE y
Min(x, y) == IF x <= y THEN x ELSE y

\* board.push(move) and board.pop()
push(stack, move) == Append(stack, move)

pop_Forgotten(stack) == stack

pop(stack) == Front(stack)

\* the depth handed to the recursive call
child_depth_Same(depth) == depth

child_depth(depth) == depth - 1

\* lines 172, 183, 214: the maximizing flag handed to the call on the child:
\* False from a maximizing node, True from a minimizing one, `not is_white`
\* from the root
child_maximizing_Same(maximizing) == maximizing

child_maximizing(maximizing) == ~maximizing

\* line 165: the base case of minimax
minimax_base_OnlyDepth(depth, pos) == depth = 0 \/ pos.legal_moves = << >>

minimax_base(depth, pos) == depth = 0 \/ pos.is_game_over

\* lines 203-204: the early return of get_best_move
get_best_move_early_OnlyNoMoves(pos) == pos.is_checkmate \/ pos.is_stalemate

get_best_move_early(pos) == pos.is_game_over

NewFrame(depth, alpha, beta, maximizing, stack) ==
  [depth |-> depth, alpha |-> alpha, beta |-> beta, maximizing |-> maximizing,
   i |-> 1, best |-> IF maximizing THEN NegInf ELSE PosInf, broke |-> FALSE,
   entry_stack |-> stack, entry_alpha |-> alpha, entry_beta |-> beta]

Top == frames[Len(frames)]

\* lines 174-177 and 185-188: fold one child's value into the frame
fold_child_NeverCut(f, eval_score) ==
  IF f.maximizing
  THEN [f EXCEPT !.best = Max(f.best, eval_score), !.alpha = Max(f.alpha, eval_score),
                 !.i = f.i + 1]
  ELSE [f EXCEPT !.best = Min(f.best, eval_score), !.beta = Min(f.beta, eval_score),
                 !.i = f.i + 1]

fold_child_LastValue(f, eval_score) ==
  IF f.maximizing
  THEN LET a == Max(f.alpha, eval_score)
       IN  [f EXCEPT !.best = eval_score, !.alpha = a,
                     !.broke = (f.beta <= a), !.i = f.i + 1]
  ELSE LET b == Min(f.beta, eval_score)
       IN  [f EXCEPT !.best = eval_score, !.beta = b,
                     !.broke = (b <= f.alpha), !.i = f.i + 1]

fold_child_CutAlways(f, eval_score) ==
  IF f.maximizing
  THEN LET a == Max(f.alpha, eval_score)
       IN  [f EXCEPT !.best = Max(f.best, eval_score), !.alpha = a,
                     !.broke = (a <= f.beta), !.i = f.i + 1]
  ELSE LET b == Min(f.beta, eval_score)
       IN  [f EXCEPT !.best = Min(f.best, eval_score), !.beta = b,
                     !.broke = (f.alpha <= b), !.i = f.i + 1]

fold_child(f, eval_score) ==
  IF f.maximizing
  THEN LET a == Max(f.alpha, eval_score)
       IN  [f EXCEPT !.best = Max(f.best, eval_score), !.alpha = a,
                     !.broke = (f.beta <= a), !.i = f.i + 1]
  ELSE LET b == Min(f.beta, eval_score)
       IN  [f EXCEPT !.best = Min(f.best, eval_score), !.beta = b,
                     !.broke = (b <= f.alpha), !.i = f.i + 1]

\* lines 218-229: fold one root move's value into best_value / best_moves
root_update_FirstOnly(r, move, value) ==
  IF r.is_white
  THEN IF value > r.best_value
       THEN [r EXCEPT !.best_value = value, !.best_moves = <<move>>, !.i = r.i + 1]
       ELSE [r EXCEPT !.i = r.i + 1]
  ELSE IF value < r.best_value
       THEN [r EXCEPT !.best_value = value, !.best_moves = <<move>>, !.i = r.i + 1]
       ELSE [r EXCEPT !.i = r.i + 1]

root_update_KeepAll(r, move, value) ==
  IF r.is_white
  THEN IF value > r.best_value
       THEN [r EXCEPT !.best_value = value, !.best_moves = Append(r.best_moves, move),
                      !.i = r.i + 1]
       ELSE IF value = r.best_value
       THEN [r EXCEPT !.best_moves = Append(r.best_moves, move), !.i = r.i + 1]
       ELSE [r EXCEPT !.i = r.i + 1]
  ELSE IF value < r.best_value
       THEN [r EXCEPT !.best_value = value, !.best_moves = Append(r.best_moves, move),
                      !.i = r.i + 1]
       ELSE IF value = r.best_value
       THEN [r EXCEPT !.best_moves = Append(r.best_moves, move), !.i = r.i + 1]
       ELSE [r EXCEPT !.i = r.i + 1]

root_update(r, move, value) ==
  IF r.is_white
  THEN IF value > r.best_value
       THEN [r EXCEPT !.best_value = value, !.best_moves = <<move>>, !.i = r.i + 1]
       ELSE IF value = r.best_value
       THEN [r EXCEPT !.best_moves = Append(r.best_moves, move), !.i = r.i + 1]
       ELSE [r EXCEPT !.i = r.i + 1]
  ELSE IF value < r.best_value
       THEN [r EXCEPT !.best_value = value, !.best_moves = <<move>>, !.i = r.i + 1]
       ELSE IF value = r.best_value
       THEN [r EXCEPT !.best_moves = Append(r.best_moves, move), !.i = r.i + 1]
       ELSE [r EXCEPT !.i = r.i + 1]

NoRoot == [i |-> 0, best_value |-> 0, best_moves |-> << >>, is_white |-> FALSE]
NoResult == [kind |-> "none", value |-> 0]
EmptyLog == [entered |-> << >>, evaluated |-> {}, pushes |-> 0, cutoffs |-> 0,
           returned_from |-> << >>, root_values |-> << >>,
           returned_call |-> [depth |-> 0, alpha |-> 0, beta |-> 0, maximizing |-> FALSE]]

EvalOff ==
  /\ e_pc = "off"
  /\ e_pos = NoPosition
  /\ e_score = 0

\* the windows a call of minimax is examined with: the full one, and the
\* open intervals between scores that occur in the games of the model
WindowEdges == {0 - 3, 0, 500}

Windows ==
  {<<NegInf, PosInf>>} \cup {w \in WindowEdges \X WindowEdges : w[1] < w[2]}

\* a call minimax(board, depth, alpha, beta, maximizing) on the root position
InitMinimaxCall ==
  /\ game \in Games
  /\ \E d \in 0..MaxDepth, m \in BOOLEAN, w \in Windows :
       /\ entry = [fn |-> "minimax", depth |-> d, maximizing |-> m,
                   alpha |-> w[1], beta |-> w[2]]
       /\ frames = <<NewFrame(d, w[1], w[2], m, << >>)>>
  /\ pc = "mm_enter"
  /\ root = NoRoot
  /\ log = [EmptyLog EXCEPT !.entered = << << << >>, entry.depth >> >>]

\* a call get_best_move(board, depth) on the root position
InitGetBestMoveCall ==
  /\ game \in Games
  /\ \E d \in (0 - 1)..MaxDepth :
       entry = [fn |-> "get_best_move", depth |-> d, maximizing |-> FALSE,
                alpha |-> NegInf, beta |-> PosInf]
  /\ frames = << >>
  /\ pc = "gbm_call"
  /\ root = NoRoot
  /\ log = EmptyLog

Init ==
  /\ EvalOff
  /\ CaptureOff
  /\ AppOff
  /\ GamesOff
  /\ InitMinimaxCall \/ InitGetBestMoveCall
  /\ move_stack = << >>
  /\ ret = 0
  /\ result = NoResult

\* where control continues when the frame on top returns `value`
Return(value) ==
  /\ ret' = value
  /\ frames' = Front(frames)
  /\ log' = [log EXCEPT !.returned_from = Top.entry_stack,
                        !.returned_call = [depth |-> Top.depth, alpha |-> Top.entry_alpha,
                                           beta |-> Top.entry_beta,
                                           maximizing |-> Top.maximizing],
                        !.evaluated = IF pc = "mm_enter"
                                      THEN @ \cup {<<move_stack, Top.depth>>} ELSE @,
                        !.cutoffs = IF pc = "mm_loop" /\ Top.broke
                                       /\ Top.i <= Len(Position(game, move_stack).legal_moves)
                                    THEN @ + 1 ELSE @]
  /\ IF Len(frames) > 1 THEN pc' = "mm_after" /\ result' = result
     ELSE IF entry.fn = "get_best_move" THEN pc' = "gbm_after" /\ result' = result
     ELSE pc' = "done" /\ result' = [kind |-> "value", value |-> value]

\* lines 165-166
MinimaxBase ==
  /\ pc = "mm_enter"
  /\ minimax_base(Top.depth, Position(game, move_stack))
  /\ Return(evaluate_board(Position(game, move_stack)))
  /\ UNCHANGED <<gamesVars, evalVars, captureVars, appVars, game, entry, move_stack, root>>

\* lines 168-170, 179-181: start the loop over board.legal_moves
MinimaxBegin ==
  /\ pc = "mm_enter"
  /\ ~minimax_base(Top.depth, Position(game, move_stack))
  /\ pc' = "mm_loop"
  /\ UNCHANGED <<gamesVars, evalVars, captureVars, appVars, game, entry, move_stack, frames, root, ret, result, log>>

MovesHere == Position(game, move_stack).legal_moves

\* lines 171-172, 182-183: push the next move and call minimax on the child
MinimaxPush ==
  /\ pc = "mm_loop"
  /\ ~Top.broke
  /\ Top.i <= Len(MovesHere)
  /\ Len(frames) < RecursionLimit
  /\ move_stack' = push(move_stack, MovesHere[Top.i])
  /\ frames' = Append(frames, NewFrame(child_depth(Top.depth), Top.alpha, Top.beta,
                                       child_maximizing(Top.maximizing), move_stack'))
  /\ log' = [log EXCEPT !.entered = Append(@, <<move_stack', child_depth(Top.depth)>>),
                        !.pushes = @ + 1]
  /\ pc' = "mm_enter"
  /\ UNCHANGED <<gamesVars, evalVars, captureVars, appVars, game, entry, root, ret, result>>

\* the interpreter's recursion limit is hit: RecursionError unwinds every
\* frame, and no pending board.pop() runs
RecursionError ==
  /\ pc = "mm_loop"
  /\ ~Top.broke
  /\ Top.i <= Len(MovesHere)
  /\ Len(frames) >= RecursionLimit
  /\ move_stack' = push(move_stack, MovesHere[Top.i])
  /\ frames' = << >>
  /\ pc' = "error"
  /\ result' = [kind |-> "RecursionError", value |-> 0]
  /\ log' = [log EXCEPT !.pushes = @ + 1]
  /\ UNCHANGED <<gamesVars, evalVars, captureVars, appVars, game, entry, root, ret>>

\* lines 173-177, 184-188: the child returned
MinimaxAfterChild ==
  /\ pc = "mm_after"
  /\ move_stack' = pop(move_stack)
  /\ frames' = [frames EXCEPT ![Len(frames)] = fold_child(Top, ret)]
  /\ pc' = "mm_loop"
  /\ UNCHANGED <<gamesVars, evalVars, captureVars, appVars, game, entry, root, ret, result, log>>

\* lines 178, 189: the loop ended (exhausted or cut off)
MinimaxReturn ==
  /\ pc = "mm_loop"
  /\ Top.broke \/ Top.i > Len(MovesHere)
  /\ Return(Top.best)
  /\ UNCHANGED <<gamesVars, evalVars, captureVars, appVars, game, entry, move_stack, root>>

\* lines 203-204
GetBestMoveGameOver ==
  /\ pc = "gbm_call"
  /\ get_best_move_early(Position(game, move_stack))
  /\ result' = [kind |-> "None", value |-> 0]
  /\ pc' = "done"
  /\ UNCHANGED <<gamesVars, evalVars, captureVars, appVars, game, entry, move_stack, frames, root, ret, log>>

\* lines 206-208
GetBestMoveBegin ==
  /\ pc = "gbm_call"
  /\ ~get_best_move_early(Position(game, move_stack))
  /\ LET is_white == Position(game, move_stack).turn = WHITE
     IN  root' = [i |-> 1, best_value |-> IF is_white THEN NegInf ELSE PosInf,
                  best_moves |-> << >>, is_white |-> is_white]
  /\ pc' = "gbm_loop"
  /\ UNCHANGED <<gamesVars, evalVars, captureVars, appVars, game, entry, move_stack, frames, ret, result, log>>

\* lines 210-215
GetBestMovePush ==
  /\ pc = "gbm_loop"
  /\ root.i <= Len(MovesHere)
  /\ move_stack' = push(move_stack, MovesHere[root.i])
  /\ frames' = <<NewFrame(entry.depth - 1, NegInf, PosInf,
                       child_maximizing(root.is_white), move_stack')>>
  /\ log' = [log EXCEPT !.entered = Append(@, <<move_stack', entry.depth - 1>>),
                        !.pushes = @ + 1]
  /\ pc' = "mm_enter"
  /\ UNCHANGED <<gamesVars, evalVars, captureVars, appVars, game, entry, root, ret, result>>

\* lines 216-229
GetBestMoveAfterChild ==
  /\ pc = "gbm_after"
  /\ move_stack' = pop(move_stack)
  /\ root' = root_update(root, Position(game, move_stack').legal_moves[root.i], ret)
  /\ log' = [log EXCEPT !.root_values = Append(@, ret)]
  /\ pc' = "gbm_loop"
  /\ UNCHANGED <<gamesVars, evalVars, captureVars, appVars, game, entry, frames, ret, result>>

\* lines 231-235: None without candidates, else random.choice(best_moves)
GetBestMoveChoose ==
  /\ pc = "gbm_loop"
  /\ root.i > Len(MovesHere)
  /\ IF root.best_moves = << >>
     THEN result' = [kind |-> "None", value |-> 0]
     ELSE \E k \in 1..Len(root.best_moves) :
            result' = [kind |-> "move", value |-> root.best_moves[k]]
  /\ pc' = "done"
  /\ UNCHANGED <<gamesVars, evalVars, captureVars, appVars, game, entry, move_stack, frames, root, ret, log>>

Next ==
  \/ MinimaxBase
  \/ MinimaxBegin
  \/ MinimaxPush
  \/ RecursionError
  \/ MinimaxAfterChild
  \/ MinimaxReturn
  \/ GetBestMoveGameOver
  \/ GetBestMoveBegin
  \/ GetBestMovePush
  \/ GetBestMoveAfterChild
  \/ GetBestMoveChoose

Spec == Init /\ [][Next]_vars

\* the search is synchronous code: a started call keeps running to its end.
\* Termination is checked on the scripted games and the first seeded ones.
FairSeedA == 2
FairSeedB == 9

FairInit ==
  /\ Init
  /\ game.script > 0 \/ (game.a <= FairSeedA /\ game.b <= FairSeedB)
  /\ entry.alpha = NegInf /\ entry.beta = PosInf

FairSpec == FairInit /\ [][Next]_vars /\ WF_vars(Next)

(***************************************************************************)
(* Capture run: one call of get_captured_pieces on a board.                *)
(***************************************************************************)
\* lines 252-259: starting_counts, in the dictionary's insertion order
CountedTypes == <<PAWN, KNIGHT, BISHOP, ROOK, QUEEN, KING>>

starting_counts ==
  (PAWN :> 8) @@ (KNIGHT :> 2) @@ (BISHOP :> 2) @@ (ROOK :> 2) @@ (QUEEN :> 1)
  @@ (KING :> 1)

\* lines 261-269: the pieces of a colour and type on the board
current_counts(board, color, piece_type) ==
  Cardinality({sq \in SQUARES :
                 piece_at(board, sq) = [piece_type |-> piece_type, color |-> color]})

\* [piece_type] * missing: the empty list when missing <= 0
Repeat_Magnitude(x, n) == [i \in 1..(IF n < 0 THEN 0 - n ELSE n) |-> x]

Repeat(x, n) == [i \in 1..n |-> x]

\* lines 272-277: the loop over starting_counts.items() for one colour
RECURSIVE captured_from(_, _, _, _)
captured_from_WithKing(board, color, k, acc) ==
  IF k > Len(CountedTypes) THEN acc
  ELSE LET piece_type == CountedTypes[k]
           missing == starting_counts[piece_type] - current_counts(board, color, piece_type)
       IN  captured_from(board, color, k + 1, acc \o Repeat(piece_type, missing))

captured_from(board, color, k, acc) ==
  IF k > Len(CountedTypes) THEN acc
  ELSE LET piece_type == CountedTypes[k]
           missing == starting_counts[piece_type] - current_counts(board, color, piece_type)
       IN  IF piece_type = KING
           THEN captured_from(board, color, k + 1, acc)
           ELSE captured_from(board, color, k + 1, acc \o Repeat(piece_type, missing))

get_captured_pieces(board) ==
  [color \in BOOLEAN |-> captured_from(board, color, 1, << >>)]

OccupiedAtStart == {sq \in SQUARES : StartBoard[sq + 1] # "."}

\* the starting position with up to two pieces taken off, or with one piece
\* exchanged for any other
CaptureBoards ==
  BaseBoards
  \cup {set_piece_at(set_piece_at(StartBoard, s1, "."), s2, ".") :
          s1 \in OccupiedAtStart, s2 \in OccupiedAtStart}
  \cup {set_piece_at(StartBoard, sq, l) : sq \in OccupiedAtStart, l \in PieceLetters}

\* the square of the pawn of a colour on a file before it has moved, and the
\* square on which it promotes on a file
PawnHome(color, file) == IF color = WHITE THEN 8 + file ELSE 48 + file
PromotionSquare(color, file) == IF color = WHITE THEN 56 + file ELSE file

PromotionLetters(color) ==
  IF color = WHITE THEN {"Q", "R", "B", "N"} ELSE {"q", "r", "b", "n"}

\* the starting position after one pawn has walked to the last rank and
\* promoted by taking the piece on a neighbouring file: the pawn is gone from
\* the board without having been captured, the taken piece was captured.
\* Before that the promoting side may have lost another pawn, its queen or a
\* knight (earlier = the promoting pawn's own square: it lost nothing).
PromotionInput(color, from_file, to_file, letter, earlier) ==
  [board |-> set_piece_at(set_piece_at(set_piece_at(StartBoard, earlier, "."),
                                       PawnHome(color, from_file), "."),
                          PromotionSquare(color, to_file), letter),
   history |->
     [kind |-> "promotion", color |-> color,
      lost |-> [c \in BOOLEAN |->
                  IF c = color
                  THEN IF earlier = PawnHome(color, from_file) THEN << >>
                       ELSE <<piece_at(StartBoard, earlier).piece_type>>
                  ELSE <<piece_at(StartBoard, PromotionSquare(color, to_file)).piece_type>>]]]

EarlierLosses(color, from_file) ==
  {PawnHome(color, from_file), PawnHome(color, 7 - from_file),
   PromotionSquare(~color, 3), PromotionSquare(~color, 1)}

PromotionInputs ==
  UNION {{PromotionInput(sc[1], sc[2], sc[3], sc[4], earlier) :
            earlier \in EarlierLosses(sc[1], sc[2])} :
         sc \in {x \in BOOLEAN \X (0..7) \X (0..7) \X PieceLetters :
                   /\ x[3] \in {x[2] - 1, x[2] + 1}
                   /\ x[3] # 4
                   /\ x[4] \in PromotionLetters(x[1])}}

CaptureInputs ==
  {[board |-> b, history |-> NoHistory] : b \in CaptureBoards} \cup PromotionInputs

InitCapture ==
  /\ c_pc = "call"
  /\ \E input \in CaptureInputs :
       /\ c_board = input.board
       /\ c_history = input.history
  /\ c_captured = NoCaptured
  /\ EvalOff
  /\ SearchOff
  /\ AppOff
  /\ GamesOff

GetCapturedPieces ==
  /\ c_pc = "call"
  /\ c_captured' = get_captured_pieces(c_board)
  /\ c_pc' = "done"
  /\ UNCHANGED <<gamesVars, c_board, c_history, evalVars, searchVars, appVars>>

NextCapture == GetCapturedPieces

SpecCapture == InitCapture /\ [][NextCapture]_vars

(***************************************************************************)
(* ChessApp (terminal_games/chess/app.py, models.py): the interface thread *)
(* runs the action handlers, a ThreadPoolExecutor with one worker runs     *)
(* get_best_move, and the future's done-callback applies the result.  A    *)
(* chess.Board object is an entry of `boards`, named by its identity, and  *)
(* holds the object's move_stack.  The rules library answers from the      *)
(* moves on the object; its move lists keep only the moves named below.    *)
(***************************************************************************)
MaxTasks == 2
SearchPlies == 1
MaxIds == MaxTasks + 2

E2 == 12
E7 == 52
HARD == 3

Move(from, to) == [from_square |-> from, to_square |-> to]

\* None where the code has an Optional[Move]
NoMove == Move(NoSquare, NoSquare)

\* e2e4, f2f3, g2g4 for White; e7e5, Qd8h4 for Black
AppMoves == <<Move(12, 28), Move(13, 21), Move(14, 30), Move(52, 36), Move(59, 31)>>

board_turn(b) == IF Len(b) % 2 = 0 THEN WHITE ELSE BLACK

Recolour(ch, color) ==
  IF ch = "." \/ PieceOfLetter(ch).color = color THEN ch ELSE SwapColour(ch)

\* the placement after the moves of b: push takes the piece off the
\* from-square and puts it on the to-square as a piece of the side to move
RECURSIVE placement(_)
placement(b) ==
  IF b = << >> THEN StartBoard
  ELSE LET p == placement(Front(b))
           m == Last(b)
       IN  set_piece_at(set_piece_at(p, m.from_square, "."), m.to_square,
                        Recolour(p[m.from_square + 1], board_turn(Front(b))))

EmptyAt(p, sq) == p[sq + 1] = "."

\* a black queen on h4 attacks the king on e1 through g3 and f2
WhiteInCheck(p) == p[31 + 1] = "q" /\ EmptyAt(p, 22) /\ EmptyAt(p, 13) /\ p[4 + 1] = "K"

\* no pawn left on g2 to block on g3, e2 still occupied: the king has no square
WhiteMated(p) == WhiteInCheck(p) /\ EmptyAt(p, 14) /\ ~EmptyAt(p, 12)

board_is_checkmate(b) == board_turn(b) = WHITE /\ WhiteMated(placement(b))

board_is_game_over(b) == board_is_checkmate(b)

IsLegal(b, m) ==
  LET p == placement(b)
      q == set_piece_at(set_piece_at(p, m.from_square, "."), m.to_square,
                        p[m.from_square + 1])
  IN  CASE m = Move(12, 28) ->
             board_turn(b) = WHITE /\ p[12 + 1] = "P" /\ EmptyAt(p, 20) /\ EmptyAt(p, 28)
               /\ ~WhiteInCheck(q)
        [] m = Move(13, 21) ->
             board_turn(b) = WHITE /\ p[13 + 1] = "P" /\ EmptyAt(p, 21) /\ ~WhiteInCheck(q)
        [] m = Move(14, 30) ->
             board_turn(b) = WHITE /\ p[14 + 1] = "P" /\ EmptyAt(p, 22) /\ EmptyAt(p, 30)
               /\ ~WhiteInCheck(q)
        [] m = Move(52, 36) ->
             board_turn(b) = BLACK /\ p[52 + 1] = "p" /\ EmptyAt(p, 44) /\ EmptyAt(p, 36)
        [] m = Move(59, 31) ->
             board_turn(b) = BLACK /\ p[59 + 1] = "q" /\ EmptyAt(p, 52) /\ EmptyAt(p, 45)
               /\ EmptyAt(p, 38) /\ EmptyAt(p, 31)
               /\ (WhiteInCheck(q) => WhiteMated(q))
        [] OTHER -> FALSE

board_legal_moves(b) == SelectSeq(AppMoves, LAMBDA m : IsLegal(b, m))

\* board.push raises when no piece stands on the move's from-square
push_raises(b, m) == EmptyAt(placement(b), m.from_square)

\* the application as one value: self.state, the Board objects, and the
\* executor's futures that have not completed (the first one is running)
App == [state |-> state, boards |-> boards, executor |-> executor]

Put(heap, id, b) == [x \in DOMAIN heap \cup {id} |-> IF x = id THEN b ELSE heap[x]]

\* the identity a newly created object gets
new_object(used) ==
  CHOOSE new \in (1..MaxIds) \ used : \A other \in (1..MaxIds) \ used : new <= other

\* board.copy(): a new Board object
board_copy_Shared(used, id) == id

board_copy(used, id) == new_object(used)

\* models.py lines 31-32, 48-49, 23-30
is_player_turn(app) == board_turn(app.boards[app.state.board]) = app.state.config.player_color

is_game_over(app) == board_is_game_over(app.boards[app.state.board])

get_legal_moves_from_selected(app) ==
  IF app.state.selected_square = NoSquare THEN {}
  ELSE LET moves == board_legal_moves(app.boards[app.state.board])
       IN  {moves[k].to_square :
              k \in {j \in 1..Len(moves) : moves[j].from_square = app.state.selected_square}}

\* models.py lines 50-60, with chess.Board() created as object `id`
create_initial_state(player_color, difficulty, id) ==
  [board |-> id,
   cursor_square |-> IF player_color = WHITE THEN E2 ELSE E7,
   selected_square |-> NoSquare,
   config |-> [player_color |-> player_color, difficulty |-> difficulty],
   is_thinking |-> FALSE,
   last_move_from |-> NoSquare,
   last_move_to |-> NoSquare]

\* models.py lines 61-70
push_move(app, move) ==
  LET id == board_copy(DOMAIN app.boards, app.state.board)
  IN  [app EXCEPT
         !.boards = Put(app.boards, id, Append(app.boards[app.state.board], move)),
         !.state = [app.state EXCEPT !.board = id,
                                     !.last_move_from = move.from_square,
                                     !.last_move_to = move.to_square,
                                     !.selected_square = NoSquare]]

\* app.py lines 140-147; `stale` and `base` are history: whether the game was
\* reset after the search was submitted, and the length of the move stack
\* the search started from
trigger_ai_move(app) ==
  IF is_game_over(app) \/ is_player_turn(app) THEN app
  ELSE LET id == board_copy(DOMAIN app.boards, app.state.board)
       IN  [state |-> [app.state EXCEPT !.is_thinking = TRUE],
            boards |-> Put(app.boards, id, app.boards[app.state.board]),
            executor |-> Append(app.executor,
                                [board |-> id,
                                 depth |-> app.state.config.difficulty,
                                 base |-> Len(app.boards[app.state.board]),
                                 stale |-> FALSE])]

TaskBoards(app) == {app.executor[k].board : k \in 1..Len(app.executor)}

\* the handler has finished: objects nothing refers to any more are gone
SetApp(app) ==
  /\ state' = app.state
  /\ executor' = app.executor
  /\ boards' = [id \in {app.state.board} \cup TaskBoards(app) |-> app.boards[id]]

\* app.py lines 34-39: ChessApp()
InitApp ==
  /\ a_pc = "init"
  /\ state = create_initial_state(WHITE, HARD, 1)
  /\ boards = [id \in {1} |-> << >>]
  /\ executor = << >>
  /\ EvalOff
  /\ SearchOff
  /\ CaptureOff
  /\ GamesOff

\* app.py lines 54-61
OnMount ==
  /\ a_pc = "init"
  /\ a_pc' = "run"
  /\ SetApp(IF ~is_player_turn(App) THEN trigger_ai_move(App) ELSE App)
  /\ UNCHANGED <<gamesVars, evalVars, searchVars, captureVars>>

\* app.py lines 158-221: the four cursor actions
MoveCursor_NoLock(delta_white, can_white, delta_black, can_black) ==
  /\ a_pc = "run"
  /\ IF state.config.player_color = WHITE
     THEN state' = [state EXCEPT !.cursor_square = IF can_white THEN @ + delta_white ELSE @]
     ELSE state' = [state EXCEPT !.cursor_square = IF can_black THEN @ + delta_black ELSE @]
  /\ UNCHANGED <<gamesVars, a_pc, boards, executor, evalVars, searchVars, captureVars>>

MoveCursor(delta_white, can_white, delta_black, can_black) ==
  /\ a_pc = "run"
  /\ IF state.is_thinking \/ is_game_over(App) THEN state' = state
     ELSE IF state.config.player_color = WHITE
     THEN state' = [state EXCEPT !.cursor_square = IF can_white THEN @ + delta_white ELSE @]
     ELSE state' = [state EXCEPT !.cursor_square = IF can_black THEN @ + delta_black ELSE @]
  /\ UNCHANGED <<gamesVars, a_pc, boards, executor, evalVars, searchVars, captureVars>>

ActionMoveUp ==
  MoveCursor(8, state.cursor_square < 56, 0 - 8, state.cursor_square >= 8)

ActionMoveDown ==
  MoveCursor(0 - 8, state.cursor_square >= 8, 8, state.cursor_square < 56)

ActionMoveLeft ==
  MoveCursor(0 - 1, state.cursor_square % 8 # 0, 1, state.cursor_square % 8 # 7)

ActionMoveRight ==
  MoveCursor(1, state.cursor_square % 8 # 7, 0 - 1, state.cursor_square % 8 # 0)

\* app.py lines 222-274.  No move of the model promotes, so the move found
\* is the one from the selected square to the cursor.
ActionSelect ==
  /\ a_pc = "run"
  /\ Len(executor) < MaxTasks
  /\ LET b == boards[state.board]
         cursor == state.cursor_square
         piece == piece_at(placement(b), cursor)
         own == piece # None /\ piece.color = state.config.player_color
         has_moves == \E k \in 1..Len(board_legal_moves(b)) :
                        board_legal_moves(b)[k].from_square = cursor
     IN  IF state.is_thinking \/ is_game_over(App) \/ ~is_player_turn(App)
         THEN UNCHANGED <<state, boards, executor>>
         ELSE IF state.selected_square = NoSquare
         THEN /\ state' = IF own /\ has_moves
                          THEN [state EXCEPT !.selected_square = cursor] ELSE state
              /\ UNCHANGED <<boards, executor>>
         ELSE IF cursor \in get_legal_moves_from_selected(App)
         THEN LET after == push_move(App, Move(state.selected_square, cursor))
              IN  SetApp(IF ~is_game_over(after) THEN trigger_ai_move(after) ELSE after)
         ELSE /\ state' = [state EXCEPT !.selected_square =
                                          IF own /\ has_moves THEN cursor ELSE NoSquare]
              /\ UNCHANGED <<boards, executor>>
  /\ UNCHANGED <<gamesVars, a_pc, evalVars, searchVars, captureVars>>

\* app.py lines 275-278
ActionDeselect ==
  /\ a_pc = "run"
  /\ state' = [state EXCEPT !.selected_square = NoSquare]
  /\ UNCHANGED <<gamesVars, a_pc, boards, executor, evalVars, searchVars, captureVars>>

\* app.py lines 279-286: every search still in flight now belongs to the
\* game that was abandoned
ActionReset ==
  /\ a_pc = "run"
  /\ LET id == new_object(DOMAIN boards)
         fresh == [state |-> create_initial_state(state.config.player_color,
                                                  state.config.difficulty, id),
                   boards |-> Put(boards, id, << >>),
                   executor |-> [k \in 1..Len(executor) |->
                                   [executor[k] EXCEPT !.stale = TRUE]]]
     IN  SetApp(IF ~is_player_turn(fresh) THEN trigger_ai_move(fresh) ELSE fresh)
  /\ UNCHANGED <<gamesVars, a_pc, evalVars, searchVars, captureVars>>

\* the worker runs the first future: get_best_move pushes a move on the
\* board it was given (chess_ai.py lines 210-213) ...
SearchPush ==
  /\ executor # << >>
  /\ LET t == Head(executor)
         b == boards[t.board]
     IN  /\ Len(b) < t.base + SearchPlies
         /\ ~board_is_game_over(b)
         /\ \E k \in 1..Len(board_legal_moves(b)) :
              boards' = [boards EXCEPT ![t.board] = Append(b, board_legal_moves(b)[k])]
  /\ UNCHANGED <<gamesVars, a_pc, state, executor, evalVars, searchVars, captureVars>>

\* ... and pops it again (chess_ai.py line 216)
SearchPop ==
  /\ executor # << >>
  /\ LET t == Head(executor)
     IN  /\ Len(boards[t.board]) > t.base
         /\ boards' = [boards EXCEPT ![t.board] = Front(@)]
  /\ UNCHANGED <<gamesVars, a_pc, state, executor, evalVars, searchVars, captureVars>>

\* what get_best_move can return on board b: None when the game is over or
\* there is no move, else one of the legal moves
SearchResults(b) ==
  IF board_is_game_over(b) \/ board_legal_moves(b) = << >> THEN {NoMove}
  ELSE {board_legal_moves(b)[k] : k \in 1..Len(board_legal_moves(b))}

\* app.py lines 148-157: the search returned and the future runs its callback
on_ai_move_complete(app, move) ==
  LET rest == [app EXCEPT !.executor = Tail(app.executor)]
      idle == [rest EXCEPT !.state = [rest.state EXCEPT !.is_thinking = FALSE]]
  IN  IF move = NoMove THEN idle
      ELSE IF push_raises(app.boards[app.state.board], move) THEN rest
      ELSE push_move(idle, move)

OnAiMoveComplete ==
  /\ executor # << >>
  /\ LET t == Head(executor)
     IN  /\ Len(boards[t.board]) = t.base
         /\ \E move \in SearchResults(boards[t.board]) :
              SetApp(on_ai_move_complete(App, move))
  /\ UNCHANGED <<gamesVars, a_pc, evalVars, searchVars, captureVars>>

NextApp ==
  \/ OnMount
  \/ ActionMoveUp
  \/ ActionMoveDown
  \/ ActionMoveLeft
  \/ ActionMoveRight
  \/ ActionSelect
  \/ ActionDeselect
  \/ ActionReset
  \/ SearchPush
  \/ SearchPop
  \/ OnAiMoveComplete

SpecApp == InitApp /\ [][NextApp]_vars

(***************************************************************************)
(* Tic-tac-toe (terminal_games/tictactoe/game_logic.py, models.py).  A     *)
(* board is a tuple of nine cells; an empty cell holds its own index,      *)
(* written here as a digit, a marked cell holds the player.                *)
(***************************************************************************)
\* models.py lines 8-11
Player_X == "X"
Player_O == "O"

\* game_logic.py lines 9-10
HUMAN_PLAYER == Player_O
AI_PLAYER == Player_X

\* game_logic.py lines 12-21
WIN_COMBOS ==
  <<<<0, 1, 2>>, <<3, 4, 5>>, <<6, 7, 8>>, <<0, 3, 6>>, <<1, 4, 7>>, <<2, 5, 8>>,
    <<0, 4, 8>>, <<6, 4, 2>>>>

\* the integers 0..8 as cell values
IndexCells == <<"0", "1", "2", "3", "4", "5", "6", "7", "8">>

\* isinstance(cell, int)
is_int(cell) == cell \notin {Player_X, Player_O}

\* the integer an empty cell holds
int_of(cell) == CHOOSE i \in 0..8 : IndexCells[i + 1] = cell

\* None where the code has an Optional[int] index
NoIndex == 0 - 1

\* None where the code has an Optional[str] winner
NoWinner == "None"

\* game_logic.py lines 24-26
create_empty_board == IndexCells

\* game_logic.py lines 29-37
ttt_create_initial_state ==
  [board |-> create_empty_board, cursor_position |-> 4, is_game_over |-> FALSE,
   winner |-> NoWinner, winning_cells |-> << >>]

\* game_logic.py lines 40-42
RECURSIVE empty_squares_from(_, _)
empty_squares_from(board, i) ==
  IF i > Len(board) THEN << >>
  ELSE IF is_int(board[i]) THEN <<int_of(board[i])>> \o empty_squares_from(board, i + 1)
  ELSE empty_squares_from(board, i + 1)

get_empty_squares(board) == empty_squares_from(board, 1)

\* game_logic.py lines 45-54: the index of the first winning combination
check_win(board, player) ==
  LET plays == {i \in 0..8 : board[i + 1] = player}
      winning == {c \in 1..Len(WIN_COMBOS) : \A k \in 1..3 : WIN_COMBOS[c][k] \in plays}
  IN  IF winning = {} THEN NoIndex
      ELSE (CHOOSE c \in winning : \A d \in winning : c <= d) - 1

\* game_logic.py lines 57-59
check_tie(board) == Len(get_empty_squares(board)) = 0

\* game_logic.py lines 62-64
set_cell(board, index, value) ==
  IF index + 1 \in DOMAIN board THEN [board EXCEPT ![index + 1] = value] ELSE board

\* game_logic.py lines 100-114: the first move with the highest score for the
\* AI, with the lowest score for the human
RECURSIVE best_from(_, _, _, _, _)
best_from(moves, player, k, best_score, best_move) ==
  IF k > Len(moves) THEN best_move
  ELSE IF player = AI_PLAYER
  THEN IF moves[k].score > best_score
       THEN best_from(moves, player, k + 1, moves[k].score, moves[k])
       ELSE best_from(moves, player, k + 1, best_score, best_move)
  ELSE IF moves[k].score < best_score
       THEN best_from(moves, player, k + 1, moves[k].score, moves[k])
       ELSE best_from(moves, player, k + 1, best_score, best_move)

\* game_logic.py lines 67-116
RECURSIVE minimax(_, _)
RECURSIVE minimax_moves(_, _, _, _)
\* lines 83-98: the list of moves with the scores of the recursive calls
minimax_moves(board, player, available_spots, k) ==
  IF k > Len(available_spots) THEN << >>
  ELSE LET spot == available_spots[k]
           new_board == set_cell(board, spot, player)
           res == IF player = AI_PLAYER THEN minimax(new_board, HUMAN_PLAYER)
                     ELSE minimax(new_board, AI_PLAYER)
       IN  <<[index |-> spot, score |-> res.score]>>
           \o minimax_moves(board, player, available_spots, k + 1)

minimax(board, player) ==
  LET available_spots == get_empty_squares(board)
  IN  IF check_win(board, HUMAN_PLAYER) # NoIndex THEN [index |-> NoIndex, score |-> 0 - 10]
      ELSE IF check_win(board, AI_PLAYER) # NoIndex THEN [index |-> NoIndex, score |-> 10]
      ELSE IF Len(available_spots) = 0 THEN [index |-> NoIndex, score |-> 0]
      ELSE LET moves == minimax_moves(board, player, available_spots, 1)
           IN  IF player = AI_PLAYER
               THEN best_from(moves, player, 1, 0 - 10000, moves[1])
               ELSE best_from(moves, player, 1, 10000, moves[1])

\* game_logic.py lines 119-122
get_best_move_FirstSpot(board) == get_empty_squares(board)[1]

get_best_move(board) == minimax(board, AI_PLAYER).index

\* game_logic.py lines 137-184: the human's mark and the AI's answer
accepted_move(st, index) ==
  LET new_board == set_cell(st.board, index, HUMAN_PLAYER)
      human_win == check_win(new_board, HUMAN_PLAYER)
  IN  IF human_win # NoIndex
      THEN [st EXCEPT !.board = new_board, !.is_game_over = TRUE,
                         !.winner = "You Win!",
                         !.winning_cells = WIN_COMBOS[human_win + 1]]
      ELSE IF check_tie(new_board)
      THEN [st EXCEPT !.board = new_board, !.is_game_over = TRUE,
                         !.winner = "Tie Game!"]
      ELSE LET ai_move == get_best_move(new_board)
               ai_board == set_cell(new_board, ai_move, AI_PLAYER)
               ai_win == check_win(ai_board, AI_PLAYER)
           IN  IF ai_win # NoIndex
               THEN [st EXCEPT !.board = ai_board, !.is_game_over = TRUE,
                                  !.winner = "You Lose!",
                                  !.winning_cells = WIN_COMBOS[ai_win + 1]]
               ELSE IF check_tie(ai_board)
               THEN [st EXCEPT !.board = ai_board, !.is_game_over = TRUE,
                                  !.winner = "Tie Game!"]
               ELSE [st EXCEPT !.board = ai_board]

\* game_logic.py lines 125-135
make_move_NoOccupiedCheck(st, index) ==
  IF st.is_game_over THEN st
  ELSE accepted_move(st, index)

make_move(st, index) ==
  IF st.is_game_over THEN st
  ELSE IF ~is_int(st.board[index + 1]) THEN st
  ELSE accepted_move(st, index)

ChessOff ==
  /\ EvalOff
  /\ SearchOff
  /\ CaptureOff
  /\ AppOff

InitTicTacToe ==
  /\ t_pc = "run"
  /\ t_state = ttt_create_initial_state
  /\ ChessOff
  /\ SnakeOff
  /\ TetrisOff

\* the player marks cell `index`
MakeMove ==
  /\ t_pc = "run"
  /\ \E index \in 0..8 : t_state' = make_move(t_state, index)
  /\ UNCHANGED <<t_pc, chessVars, snakeVars, tetrisVars>>

NextTicTacToe == MakeMove

SpecTicTacToe == InitTicTacToe /\ [][NextTicTacToe]_vars

(***************************************************************************)
(* Snake (terminal_games/snake/game_logic.py, models.py).  The random      *)
(* draws of spawn_apple are an input of the operation that makes them.     *)
(***************************************************************************)
MaxTicks == 10
MaxTurns == 3
AppleSpread == 1

\* app.py lines 66-78: the smallest board _calculate_board_config returns
BoardColumns == 19
BoardRows == 18
BoardConfig == [columns |-> BoardColumns, rows |-> BoardRows]

\* models.py lines 16-23
Pos(x, y) == [x |-> x, y |-> y]
pos_add(p, q) == Pos(p.x + q.x, p.y + q.y)

\* models.py lines 8-13, 72-86
Directions == {"UP", "DOWN", "LEFT", "RIGHT"}

DIRECTION_VECTORS ==
  [d \in Directions |->
     CASE d = "UP" -> Pos(0, 0 - 1)
       [] d = "DOWN" -> Pos(0, 1)
       [] d = "LEFT" -> Pos(0 - 1, 0)
       [] d = "RIGHT" -> Pos(1, 0)]

OPPOSITE_DIRECTIONS ==
  [d \in Directions |->
     CASE d = "UP" -> "DOWN"
       [] d = "DOWN" -> "UP"
       [] d = "LEFT" -> "RIGHT"
       [] d = "RIGHT" -> "LEFT"]

\* models.py lines 37-46: Snake.direction
snake_direction(snake) ==
  IF snake.velocity.x < 0 THEN "LEFT"
  ELSE IF snake.velocity.x > 0 THEN "RIGHT"
  ELSE IF snake.velocity.y < 0 THEN "UP"
  ELSE "DOWN"

AllPositions(config) == {Pos(x, y) : x \in 0..(config.columns - 1), y \in 0..(config.rows - 1)}

CellSet(cells) == {cells[i] : i \in 1..Len(cells)}

\* game_logic.py lines 25-44: the positions spawn_apple can return: a draw
\* that misses the occupied cells, or an element of the free set after 512
\* misses, or Position(0, 0) when no cell is free
spawn_apple_Anywhere(occupied_cells, config) == AllPositions(config)

spawn_apple(occupied_cells, config) ==
  LET free == AllPositions(config) \ CellSet(occupied_cells)
  IN  IF free = {} THEN {Pos(0, 0)} ELSE free

\* the draws considered: the results that lie around the middle of the
\* board (every result if none lies there)
AppleDraws(occupied_cells, config) ==
  LET near == {p \in spawn_apple(occupied_cells, config) :
                 /\ p.x - config.columns \div 2 \in (0 - AppleSpread)..AppleSpread
                 /\ p.y - config.rows \div 2 \in (0 - AppleSpread)..AppleSpread}
  IN  IF near = {} THEN spawn_apple(occupied_cells, config) ELSE near

\* game_logic.py lines 12-24
snake_create_initial_state(config, high_score, apple) ==
  LET center == Pos(config.columns \div 2, config.rows \div 2)
  IN  [snake |-> [head |-> center, velocity |-> Pos(1, 0),
                  cells |-> [i \in 1..6 |-> Pos(center.x - (i - 1), center.y)],
                  max_cells |-> 6],
       apple |-> apple, score |-> 0, high_score |-> high_score,
       is_game_over |-> FALSE, is_paused |-> FALSE]

\* game_logic.py lines 45-49
wrap_position_NoWrap(p, config) == p

wrap_position(p, config) == Pos(p.x % config.columns, p.y % config.rows)

\* game_logic.py lines 50-51
can_change_direction(current, target) == OPPOSITE_DIRECTIONS[current] # target

\* game_logic.py lines 52-70: the new snake (the first component of the
\* pair; tick drops the second, the old tail)
update_snake(snake, config) ==
  LET new_head == wrap_position(pos_add(snake.head, snake.velocity), config)
      new_cells == <<new_head>> \o snake.cells
  IN  [head |-> new_head, velocity |-> snake.velocity,
       cells |-> IF Len(new_cells) > snake.max_cells THEN Front(new_cells) ELSE new_cells,
       max_cells |-> snake.max_cells]

\* game_logic.py lines 71-74
check_self_collision(snake) ==
  IF Len(snake.cells) < 2 THEN FALSE
  ELSE \E i \in 2..Len(snake.cells) : snake.cells[i] = snake.head

\* game_logic.py lines 75-76
check_apple_collision(snake, apple) == snake.head = apple

\* game_logic.py lines 77-83
grow_snake(snake) == [snake EXCEPT !.max_cells = @ + 1]

\* game_logic.py lines 84-111; `drawn` is what spawn_apple returns if called
tick(st, config, drawn) ==
  IF st.is_paused \/ st.is_game_over THEN st
  ELSE LET new_snake == update_snake(st.snake, config)
       IN  IF check_self_collision(new_snake)
           THEN [st EXCEPT !.snake = new_snake,
                           !.high_score = Max(st.high_score, st.score),
                           !.is_game_over = TRUE, !.is_paused = FALSE]
           ELSE IF check_apple_collision(new_snake, st.apple)
           THEN [st EXCEPT !.snake = grow_snake(new_snake),
                           !.apple = drawn,
                           !.score = st.score + 1,
                           !.high_score = Max(st.high_score, st.score + 1)]
           ELSE [st EXCEPT !.snake = new_snake,
                           !.high_score = Max(st.high_score, st.score)]

\* game_logic.py lines 112-131
change_direction(st, new_direction) ==
  IF st.is_game_over \/ st.is_paused THEN st
  ELSE IF ~can_change_direction(snake_direction(st.snake), new_direction) THEN st
  ELSE [st EXCEPT !.snake.velocity = DIRECTION_VECTORS[new_direction]]

\* game_logic.py lines 132-142
snake_toggle_pause(st) ==
  IF st.is_game_over THEN st
  ELSE [st EXCEPT !.is_paused = ~st.is_paused]

NoVelocity == Pos(0, 0)

\* app.py lines 57-61, 100: on_mount creates the state with high score 0
InitSnake ==
  /\ s_pc = "run"
  /\ \E apple \in AppleDraws(snake_create_initial_state(BoardConfig, 0, Pos(0, 0)).snake.cells,
                             BoardConfig) :
       s_state = snake_create_initial_state(BoardConfig, 0, apple)
  /\ s_hist = [moved |-> NoVelocity, ticks |-> 0, turns |-> 0]
  /\ ChessOff
  /\ TicOff
  /\ TetrisOff

\* app.py lines 217-222: the timer calls tick unless the game is paused or
\* over; s_hist.moved is the velocity of the move this tick makes
Tick ==
  /\ s_pc = "run"
  /\ s_hist.ticks < MaxTicks
  /\ ~s_state.is_paused /\ ~s_state.is_game_over
  /\ \E drawn \in AppleDraws(grow_snake(update_snake(s_state.snake, BoardConfig)).cells,
                             BoardConfig) :
       s_state' = tick(s_state, BoardConfig, drawn)
  /\ s_hist' = [s_hist EXCEPT !.moved = s_state.snake.velocity, !.ticks = @ + 1]
  /\ UNCHANGED <<s_pc, chessVars, ticVars, tetrisVars>>

\* app.py lines 244-259: the four direction keys
ChangeDirection ==
  /\ s_pc = "run"
  /\ \E new_direction \in Directions :
       /\ s_state' = change_direction(s_state, new_direction)
       /\ s_hist' = IF s_state' # s_state THEN [s_hist EXCEPT !.turns = @ + 1] ELSE s_hist
       /\ s_hist'.turns <= MaxTurns
  /\ UNCHANGED <<s_pc, chessVars, ticVars, tetrisVars>>

\* app.py lines 268-275
TogglePause ==
  /\ s_pc = "run"
  /\ s_state' = snake_toggle_pause(s_state)
  /\ UNCHANGED <<s_pc, s_hist, chessVars, ticVars, tetrisVars>>

NextSnake ==
  \/ Tick
  \/ ChangeDirection
  \/ TogglePause

SpecSnake == InitSnake /\ [][NextSnake]_vars

(***************************************************************************)
(* Tetris (terminal_games/tetris/game_logic.py, models.py,                 *)
(* tetrominoes.py).  The random draw of spawn_random_piece is an input of  *)
(* the operation that makes it.                                            *)
(***************************************************************************)
MaxLocks == 5
MaxSteers == 4
MaxScore == 2

\* the bounds of a run that starts from a board built up by earlier play
ClearLocks == 2
ClearSteers == 2
ClearScore == 1000

\* app.py lines 67-78: the smallest board _calculate_board_config returns
\* (models.py lines 27-28: it is also the default)
TetrisWidth == 10
TetrisHeight == 18
TetrisConfig == [width |-> TetrisWidth, height |-> TetrisHeight]

\* models.py lines 7-11
tetris_Position(x, y) == [x |-> x, y |-> y]

\* tetrominoes.py lines 2-58
I_PIECE == [shape |-> <<<<0, 0, 0, 0>>, <<1, 1, 1, 1>>, <<0, 0, 0, 0>>, <<0, 0, 0, 0>>>>,
            color |-> 1]
J_PIECE == [shape |-> <<<<2, 0, 0>>, <<2, 2, 2>>, <<0, 0, 0>>>>, color |-> 2]
L_PIECE == [shape |-> <<<<0, 0, 3>>, <<3, 3, 3>>, <<0, 0, 0>>>>, color |-> 3]
O_PIECE == [shape |-> <<<<4, 4>>, <<4, 4>>>>, color |-> 4]
S_PIECE == [shape |-> <<<<0, 5, 5>>, <<5, 5, 0>>, <<0, 0, 0>>>>, color |-> 5]
T_PIECE == [shape |-> <<<<0, 6, 0>>, <<6, 6, 6>>, <<0, 0, 0>>>>, color |-> 6]
Z_PIECE == [shape |-> <<<<7, 7, 0>>, <<0, 7, 7>>, <<0, 0, 0>>>>, color |-> 7]
ALL_PIECES == <<I_PIECE, J_PIECE, L_PIECE, O_PIECE, S_PIECE, T_PIECE, Z_PIECE>>

\* None where the code has an Optional[Tetromino]
NoPiece == [shape |-> << >>, color |-> 0]

\* game_logic.py lines 7-8: the pieces spawn_random_piece can return
spawn_random_piece == {ALL_PIECES[k] : k \in 1..Len(ALL_PIECES)}

\* the draws considered: the straight piece
PieceDraws == {piece \in spawn_random_piece : piece = I_PIECE}

\* game_logic.py lines 5-6
tetris_create_empty_board(config) ==
  [y \in 1..config.height |-> [x \in 1..config.width |-> 0]]

\* game_logic.py lines 12, 177, 205
spawn_position(piece, config) ==
  tetris_Position((config.width - Len(piece.shape[1])) \div 2, 0)

\* game_logic.py lines 9-18
tetris_create_initial_state(config, high_score, piece) ==
  [board |-> tetris_create_empty_board(config),
   current_piece |-> piece,
   position |-> spawn_position(piece, config),
   score |-> 0, high_score |-> high_score, level |-> 1, lines_cleared |-> 0,
   combo |-> 0, last_clear_was_tetris |-> FALSE, is_game_over |-> FALSE,
   is_paused |-> FALSE, clearing_rows |-> << >>]

\* game_logic.py lines 19-25
rotate_piece(piece) ==
  [shape |-> [i \in 1..Len(piece.shape[1]) |->
                [j \in 1..Len(piece.shape) |-> piece.shape[Len(piece.shape) - j + 1][i]]],
   color |-> piece.color]

\* the filled cells of a shape, as (row_idx, col_idx) pairs counted from 0
FilledCells(shape) ==
  {rc \in (0..(Len(shape) - 1)) \X (0..(Len(shape[1]) - 1)) : shape[rc[1] + 1][rc[2] + 1] # 0}

\* game_logic.py lines 26-44
can_place_piece(piece, position, board, config) ==
  \A rc \in FilledCells(piece.shape) :
    LET new_x == position.x + rc[2]
        new_y == position.y + rc[1]
    IN  /\ ~(new_x < 0 \/ new_x >= config.width)
        /\ ~(new_y >= config.height)
        /\ ~(new_y >= 0 /\ board[new_y + 1][new_x + 1] # 0)

\* game_logic.py lines 45-59
merge_piece_to_board(piece, position, board) ==
  [y \in 1..Len(board) |->
     [x \in 1..Len(board[1]) |->
        IF <<y - 1 - position.y, x - 1 - position.x>> \in FilledCells(piece.shape)
        THEN piece.shape[y - position.y][x - position.x]
        ELSE board[y][x]]]

\* game_logic.py lines 60-65: the indices of the complete rows, ascending
find_complete_rows(board) ==
  SelectSeq([y \in 1..Len(board) |-> y - 1],
            LAMBDA row_idx : \A x \in 1..Len(board[row_idx + 1]) : board[row_idx + 1][x] # 0)

\* game_logic.py lines 66-76
clear_rows_FirstOnly(board, rows, config) ==
  LET kept == SelectSeq([y \in 1..Len(board) |-> y - 1], LAMBDA row_idx : row_idx # rows[1])
  IN  <<[x \in 1..config.width |-> 0]>> \o [k \in 1..Len(kept) |-> board[kept[k] + 1]]

clear_rows(board, rows, config) ==
  LET complete == {rows[k] : k \in 1..Len(rows)}
      kept == SelectSeq([y \in 1..Len(board) |-> y - 1], LAMBDA row_idx : row_idx \notin complete)
  IN  [k \in 1..Len(rows) |-> [x \in 1..config.width |-> 0]]
      \o [k \in 1..Len(kept) |-> board[kept[k] + 1]]

\* game_logic.py lines 77-84; int(points * 1.5) is (points * 3) // 2
calculate_line_score(lines, level, combo, was_tetris) ==
  LET base_points == CASE lines = 1 -> 100 [] lines = 2 -> 300 [] lines = 3 -> 500
                       [] lines = 4 -> 800 [] OTHER -> 0
      points == base_points * level
      boosted == IF lines = 4 /\ was_tetris THEN (points * 3) \div 2 ELSE points
  IN  IF combo > 0 THEN boosted + 50 * combo * level ELSE boosted

\* game_logic.py lines 85-86
calculate_level(total_lines) == (total_lines \div 5) + 1

\* game_logic.py lines 90-101
RECURSIVE drop_from(_, _, _, _, _)
drop_from(piece, test_pos, board, config, distance) ==
  IF can_place_piece(piece, tetris_Position(test_pos.x, test_pos.y + 1), board, config)
  THEN drop_from(piece, tetris_Position(test_pos.x, test_pos.y + 1), board, config,
                 distance + 1)
  ELSE distance

hard_drop_distance(piece, position, board, config) ==
  drop_from(piece, position, board, config, 0)

\* game_logic.py lines 145-220; new_piece is what spawn_random_piece returns
lock_piece(st, config, new_piece) ==
  IF st.current_piece = NoPiece THEN st
  ELSE IF \E rc \in FilledCells(st.current_piece.shape) : st.position.y + rc[1] < 0
  THEN [st EXCEPT !.is_game_over = TRUE, !.current_piece = NoPiece,
                  !.high_score = Max(st.high_score, st.score)]
  ELSE LET new_board == merge_piece_to_board(st.current_piece, st.position, st.board)
           complete_rows == find_complete_rows(new_board)
           new_pos == spawn_position(new_piece, config)
       IN  IF complete_rows # << >>
           THEN LET lines == Len(complete_rows)
                    points == calculate_line_score(lines, st.level, st.combo,
                                                   st.last_clear_was_tetris)
                    new_score == st.score + points
                    new_lines_cleared == st.lines_cleared + lines
                    cleared_board == clear_rows(new_board, complete_rows, config)
                    cleared == [st EXCEPT !.board = cleared_board,
                                          !.score = new_score,
                                          !.high_score = Max(st.high_score, new_score),
                                          !.level = calculate_level(new_lines_cleared),
                                          !.lines_cleared = new_lines_cleared,
                                          !.combo = st.combo + 1,
                                          !.last_clear_was_tetris = (lines = 4)]
                IN  IF ~can_place_piece(new_piece, new_pos, cleared_board, config)
                    THEN [cleared EXCEPT !.current_piece = NoPiece, !.is_game_over = TRUE]
                    ELSE [cleared EXCEPT !.current_piece = new_piece, !.position = new_pos]
           ELSE IF ~can_place_piece(new_piece, new_pos, new_board, config)
           THEN [st EXCEPT !.board = new_board, !.current_piece = NoPiece,
                           !.is_game_over = TRUE]
           ELSE [st EXCEPT !.board = new_board, !.current_piece = new_piece,
                           !.position = new_pos, !.combo = 0,
                           !.last_clear_was_tetris = FALSE]

\* game_logic.py lines 102-108
move_left_NoCheck(st, config) ==
  IF st.is_game_over \/ st.is_paused \/ st.current_piece = NoPiece THEN st
  ELSE [st EXCEPT !.position = tetris_Position(st.position.x - 1, st.position.y)]

move_left(st, config) ==
  IF st.is_game_over \/ st.is_paused \/ st.current_piece = NoPiece THEN st
  ELSE LET new_pos == tetris_Position(st.position.x - 1, st.position.y)
       IN  IF can_place_piece(st.current_piece, new_pos, st.board, config)
           THEN [st EXCEPT !.position = new_pos]
           ELSE st

\* game_logic.py lines 109-115
move_right(st, config) ==
  IF st.is_game_over \/ st.is_paused \/ st.current_piece = NoPiece THEN st
  ELSE LET new_pos == tetris_Position(st.position.x + 1, st.position.y)
       IN  IF can_place_piece(st.current_piece, new_pos, st.board, config)
           THEN [st EXCEPT !.position = new_pos]
           ELSE st

\* game_logic.py lines 116-123: the state of the pair move_down returns (the
\* flag says whether the piece was locked)
move_down(st, config, new_piece) ==
  IF st.is_game_over \/ st.is_paused \/ st.current_piece = NoPiece THEN st
  ELSE LET new_pos == tetris_Position(st.position.x, st.position.y + 1)
       IN  IF can_place_piece(st.current_piece, new_pos, st.board, config)
           THEN [st EXCEPT !.position = new_pos]
           ELSE lock_piece(st, config, new_piece)

\* game_logic.py lines 124-130
try_rotate(st, config) ==
  IF st.is_game_over \/ st.is_paused \/ st.current_piece = NoPiece THEN st
  ELSE LET rotated == rotate_piece(st.current_piece)
       IN  IF can_place_piece(rotated, st.position, st.board, config)
           THEN [st EXCEPT !.current_piece = rotated]
           ELSE st

\* game_logic.py lines 131-144
do_hard_drop(st, config, new_piece) ==
  IF st.is_game_over \/ st.is_paused \/ st.current_piece = NoPiece THEN st
  ELSE LET distance == hard_drop_distance(st.current_piece, st.position, st.board, config)
           new_score == st.score + distance * 2
           dropped_state ==
             [st EXCEPT !.position = tetris_Position(st.position.x, st.position.y + distance),
                        !.score = new_score,
                        !.high_score = Max(st.high_score, new_score)]
       IN  lock_piece(dropped_state, config, new_piece)

\* game_logic.py lines 221-224
tetris_toggle_pause(st) ==
  IF st.is_game_over THEN st
  ELSE [st EXCEPT !.is_paused = ~st.is_paused]

\* app.py lines 58-62, 100: on_mount creates the state with high score 0
InitTetris ==
  /\ tet_pc = "run"
  /\ \E piece \in PieceDraws : tet_state = tetris_create_initial_state(TetrisConfig, 0, piece)
  /\ tet_hist = [locks |-> 0, steers |-> 0,
                 limits |-> [locks |-> MaxLocks, steers |-> MaxSteers, score |-> MaxScore]]
  /\ ChessOff
  /\ TicOff
  /\ SnakeOff

\* a piece was locked in the step from st to after
Locked(st, after) == after.board # st.board \/ after.is_game_over # st.is_game_over

\* the run stays within the bounds it was started with: pieces locked,
\* accepted moves to the side and rotations (steers), score
TetrisStep(after, hist) ==
  /\ tet_state' = after
  /\ tet_hist' = hist
  /\ hist.locks <= hist.limits.locks
  /\ hist.steers <= hist.limits.steers
  /\ after.score <= hist.limits.score

\* app.py lines 234-243
TetrisMoveLeft ==
  /\ tet_pc = "run"
  /\ LET after == move_left(tet_state, TetrisConfig)
     IN  TetrisStep(after, IF after # tet_state
                           THEN [tet_hist EXCEPT !.steers = @ + 1] ELSE tet_hist)
  /\ UNCHANGED <<tet_pc, chessVars, ticVars, snakeVars>>

TetrisMoveRight ==
  /\ tet_pc = "run"
  /\ LET after == move_right(tet_state, TetrisConfig)
     IN  TetrisStep(after, IF after # tet_state
                           THEN [tet_hist EXCEPT !.steers = @ + 1] ELSE tet_hist)
  /\ UNCHANGED <<tet_pc, chessVars, ticVars, snakeVars>>

\* app.py lines 202-211, 244-250: the gravity timer and the soft-drop key
TetrisMoveDown ==
  /\ tet_pc = "run"
  /\ \E new_piece \in PieceDraws :
       LET after == move_down(tet_state, TetrisConfig, new_piece)
       IN  TetrisStep(after, IF Locked(tet_state, after)
                             THEN [tet_hist EXCEPT !.locks = @ + 1] ELSE tet_hist)
  /\ UNCHANGED <<tet_pc, chessVars, ticVars, snakeVars>>

\* app.py lines 252-255
TetrisRotate ==
  /\ tet_pc = "run"
  /\ LET after == try_rotate(tet_state, TetrisConfig)
     IN  TetrisStep(after, IF after # tet_state
                           THEN [tet_hist EXCEPT !.steers = @ + 1] ELSE tet_hist)
  /\ UNCHANGED <<tet_pc, chessVars, ticVars, snakeVars>>

\* app.py lines 257-265
TetrisHardDrop ==
  /\ tet_pc = "run"
  /\ \E new_piece \in PieceDraws :
       LET after == do_hard_drop(tet_state, TetrisConfig, new_piece)
       IN  TetrisStep(after, IF Locked(tet_state, after)
                             THEN [tet_hist EXCEPT !.locks = @ + 1] ELSE tet_hist)
  /\ UNCHANGED <<tet_pc, chessVars, ticVars, snakeVars>>

\* app.py lines 274-282
TetrisTogglePause ==
  /\ tet_pc = "run"
  /\ TetrisStep(tetris_toggle_pause(tet_state), tet_hist)
  /\ UNCHANGED <<tet_pc, chessVars, ticVars, snakeVars>>

NextTetris ==
  \/ TetrisMoveLeft
  \/ TetrisMoveRight
  \/ TetrisMoveDown
  \/ TetrisRotate
  \/ TetrisHardDrop
  \/ TetrisTogglePause

SpecTetris == InitTetris /\ [][NextTetris]_vars

(***************************************************************************)
(* Tetris from a board built up by earlier play.  A play is one piece      *)
(* steered and left to gravity: try_rotate `turns' times, move_left or     *)
(* move_right |shift| times, then move_down (the gravity tick, app.py      *)
(* lines 202-211) until the piece locks.  Gravity adds nothing to the      *)
(* score, so the states built here are states a game reaches with score 0. *)
(***************************************************************************)
RECURSIVE turn(_, _, _)
turn(st, config, turns) ==
  IF turns = 0 THEN st ELSE turn(try_rotate(st, config), config, turns - 1)

RECURSIVE shift_by(_, _, _)
shift_by(st, config, shift) ==
  IF shift = 0 THEN st
  ELSE IF shift < 0 THEN shift_by(move_left(st, config), config, shift + 1)
  ELSE shift_by(move_right(st, config), config, shift - 1)

RECURSIVE settle(_, _, _)
settle(st, config, new_piece) ==
  CHOOSE rested \in {IF after = st \/ Locked(st, after) THEN after
                     ELSE settle(after, config, new_piece) :
                     after \in {move_down(st, config, new_piece)}} : TRUE

\* one play: the piece is steered, then falls until it locks
one_play(st, config, steer) ==
  CHOOSE rested \in {settle(steered, config, I_PIECE) :
                     steered \in {shift_by(turn(st, config, steer[1]), config, steer[2])}} : TRUE

\* the plays one after the other (the first half, then the second half)
RECURSIVE play(_, _, _)
play(st, config, plays) ==
  IF plays = << >> THEN st
  ELSE IF Len(plays) = 1 THEN one_play(st, config, plays[1])
  ELSE LET half == Len(plays) \div 2
       IN  CHOOSE played \in {play(midway, config, SubSeq(plays, half + 1, Len(plays))) :
                              midway \in {play(st, config, SubSeq(plays, 1, half))}} : TRUE

\* straight pieces laid flat in columns 0-3 and 6-9 of the bottom row and one
\* stood in column 4: the bottom row lacks column 5 only
OneRowPlays == <<<<0, 0 - 3>>, <<0, 3>>, <<1, 0 - 1>>>>

\* the same with two flat pieces on each side: the two bottom rows lack
\* column 5 only
TwoRowPlays == <<<<0, 0 - 3>>, <<0, 0 - 3>>, <<0, 3>>, <<0, 3>>, <<1, 0 - 1>>>>

\* straight pieces stood in every column but column 5: the four bottom rows
\* lack column 5 only
FourRowPlays ==
  <<<<1, 0 - 5>>, <<1, 0 - 4>>, <<1, 0 - 3>>, <<1, 0 - 2>>, <<1, 0 - 1>>,
    <<1, 1>>, <<1, 2>>, <<1, 3>>, <<1, 4>>>>

PreparedPlays == {OneRowPlays, TwoRowPlays, FourRowPlays}

\* app.py lines 58-62, 100, then the plays
InitTetrisClear ==
  /\ tet_pc = "run"
  /\ \E plays \in PreparedPlays :
       tet_state = play(tetris_create_initial_state(TetrisConfig, 0, I_PIECE),
                        TetrisConfig, plays)
  /\ tet_hist = [locks |-> 0, steers |-> 0,
                 limits |-> [locks |-> ClearLocks, steers |-> ClearSteers,
                             score |-> ClearScore]]
  /\ ChessOff
  /\ TicOff
  /\ SnakeOff

SpecTetrisClear == InitTetrisClear /\ [][NextTetris]_vars

(***************************************************************************)
(* Properties of the evaluator.                                            *)
(***************************************************************************)
RECURSIVE SumOver(_, _)
SumOver(S, f) ==
  IF S = {} THEN 0
  ELSE LET x == CHOOSE y \in S : TRUE IN f[x] + SumOver(S \ {x}, f)

SquaresOf(board, color) ==
  {sq \in SQUARES : piece_at(board, sq) # None /\ piece_at(board, sq).color = color}

WhiteTerm(board) ==
  [sq \in SquaresOf(board, WHITE) |->
     PIECE_VALUES[piece_at(board, sq).piece_type]
     + PIECE_TABLES[piece_at(board, sq).piece_type]
                   [(7 - square_rank(sq)) * 8 + square_file(sq) + 1]]

BlackTerm(board) ==
  [sq \in SquaresOf(board, BLACK) |->
     PIECE_VALUES[piece_at(board, sq).piece_type]
     + PIECE_TABLES[piece_at(board, sq).piece_type]
                   [square_rank(sq) * 8 + square_file(sq) + 1]]

FormulaScore(pos) ==
  SumOver(SquaresOf(pos.board, WHITE), WhiteTerm(pos.board))
  - SumOver(SquaresOf(pos.board, BLACK), BlackTerm(pos.board))
  + (IF pos.turn = WHITE THEN 2 * Len(pos.legal_moves) ELSE 0 - 2 * Len(pos.legal_moves))

EvalTerminal(pos) == pos.is_checkmate \/ pos.is_stalemate \/ pos.is_insufficient_material

\* C6: evaluate_board returns -20000 for checkmate with White to move, +20000
\* for checkmate with Black to move and 0 for stalemate or insufficient
\* material, whatever pieces are on the board.
C6_TerminalEvaluation ==
  e_pc = "done" =>
    /\ (e_pos.is_checkmate /\ e_pos.turn = WHITE) => e_score = -20000
    /\ (e_pos.is_checkmate /\ e_pos.turn = BLACK) => e_score = 20000
    /\ (~e_pos.is_checkmate /\ (e_pos.is_stalemate \/ e_pos.is_insufficient_material))
         => e_score = 0

\* a checkmate has been scored on a board whose material is far from level
C6_Witness ==
  /\ e_pc = "done"
  /\ e_pos.is_checkmate
  /\ e_pos.turn = WHITE
  /\ e_pos.board = RookUpBoard
  /\ e_score = -20000

\* C7: on a position that is not checkmate, stalemate or insufficient material
\* evaluate_board returns the White sum of material + table[(7-rank)*8+file]
\* minus the Black sum of material + table[rank*8+file], plus (White to move)
\* or minus (Black to move) twice the number of legal moves of the side to move.
C7_EvaluationFormula ==
  (e_pc = "done" /\ ~EvalTerminal(e_pos)) => e_score = FormulaScore(e_pos)

\* a non-terminal position with a White pawn on its seventh rank (a7) has been
\* scored: the mirrored index gives the pawn 50, the direct index would give 5
C7_Witness ==
  /\ e_pc = "done"
  /\ ~EvalTerminal(e_pos)
  /\ e_pos.board = set_piece_at(BareKingsBoard, 48, "P")
  /\ e_pos.turn = BLACK
  /\ Len(e_pos.legal_moves) = 2
  /\ e_score = 100 + 50 - 4

\* C8 as stated: the standard starting position evaluates to 0.
C8_StartIsZero ==
  (e_pc = "done" /\ e_pos = StartPosition) => e_score = 0

\* C8 as amended: the standard starting position (White to move, 20 legal
\* moves) evaluates to 40: material and tables cancel, and the mobility term
\* of the side to move adds 2 * 20.
C8_StartIsForty ==
  (e_pc = "done" /\ e_pos = StartPosition) => e_score = 40

\* the starting position has been evaluated
C8_Witness ==
  /\ e_pc = "done"
  /\ e_pos = StartPosition
  /\ Len(e_pos.legal_moves) = 20
  /\ e_pos.turn = WHITE

(***************************************************************************)
(* Properties of the search.                                               *)
(***************************************************************************)
SetMax(S) == IF S = {} THEN NegInf ELSE CHOOSE x \in S : \A y \in S : y <= x
SetMin(S) == IF S = {} THEN PosInf ELSE CHOOSE x \in S : \A y \in S : x <= y

\* minimax without any cutoff: same enumeration, same depth, same leaves
RECURSIVE PlainMinimax(_, _, _, _)
PlainMinimax(g, path, depth, maximizing) ==
  LET pos == Position(g, path)
  IN  IF depth = 0 \/ pos.is_game_over THEN evaluate_board(pos)
      ELSE LET vals == {PlainMinimax(g, Append(path, pos.legal_moves[k]), depth - 1,
                                     ~maximizing) : k \in 1..Len(pos.legal_moves)}
           IN  IF maximizing THEN SetMax(vals) ELSE SetMin(vals)

RootPosition == Position(game, << >>)
RootMoves == {RootPosition.legal_moves[k] : k \in 1..Len(RootPosition.legal_moves)}
RootIsWhite == RootPosition.turn = WHITE

\* exact value of a root move for a search of entry.depth
RootMoveValue(m) == PlainMinimax(game, <<m>>, entry.depth - 1, ~RootIsWhite)

BestRootValue ==
  IF RootIsWhite THEN SetMax({RootMoveValue(m) : m \in RootMoves})
  ELSE SetMin({RootMoveValue(m) : m \in RootMoves})

GetBestMoveDone == pc = "done" /\ entry.fn = "get_best_move"

\* C1: with the full window, minimax returns the value of the plain minimax
\* without cutoffs over the same tree, for every depth >= 0 and either value
\* of maximizing (the direct call, and every call made by get_best_move).
C1_AlphaBetaEquivalence ==
  /\ (pc = "done" /\ entry.fn = "minimax" /\ entry.alpha = NegInf /\ entry.beta = PosInf)
       => result.value = PlainMinimax(game, << >>, entry.depth, entry.maximizing)
  /\ (pc = "gbm_after" /\ entry.depth >= 1)
       => ret = PlainMinimax(game, move_stack, entry.depth - 1, ~root.is_white)

\* a search of depth >= 2 that cut off at least one sibling has returned
C1_Witness ==
  /\ pc = "done"
  /\ entry.fn = "minimax"
  /\ entry.alpha = NegInf /\ entry.beta = PosInf
  /\ entry.depth >= 2
  /\ log.cutoffs > 0
  /\ result.kind = "value"

\* C2: on a non-terminal position with depth >= 1 get_best_move returns a
\* legal root move whose exact (depth-1) minimax value is the best of all root
\* moves (largest for White, smallest for Black), whatever the random choice.
C2_BestValueOnly ==
  (GetBestMoveDone /\ entry.depth >= 1 /\ ~RootPosition.is_game_over) =>
    /\ result.kind = "move"
    /\ result.value \in RootMoves
    /\ RootMoveValue(result.value) = BestRootValue

\* a move has been returned where some root move is strictly inferior
C2_Witness ==
  /\ GetBestMoveDone
  /\ entry.depth >= 2
  /\ ~RootPosition.is_game_over
  /\ result.kind = "move"
  /\ \E m \in RootMoves : RootMoveValue(m) # BestRootValue

\* C3: the board is back at the call's entry position whenever minimax has
\* returned, before every sibling is tried and before the loop's return
\* (cutoff included), and when get_best_move has returned.
C3_PositionRestored ==
  /\ pc \in {"mm_after", "gbm_after"} => move_stack = log.returned_from
  /\ pc = "mm_loop" => move_stack = Top.entry_stack
  /\ pc = "gbm_loop" => move_stack = << >>
  /\ pc = "done" => move_stack = << >>

\* a frame below the root has just been cut off with siblings left untried
C3_Witness ==
  /\ pc = "mm_loop"
  /\ Top.broke
  /\ Top.i <= Len(MovesHere)
  /\ Len(move_stack) >= 1
  /\ log.pushes >= 3

\* C4: on a game-over position get_best_move returns None for every depth,
\* raises nothing and pushes no move.
C4_GameOverGivesNone ==
  (entry.fn = "get_best_move" /\ RootPosition.is_game_over) =>
    /\ pc \in {"gbm_call", "done"}
    /\ log.pushes = 0
    /\ move_stack = << >>
    /\ pc = "done" => result.kind = "None"

\* None has been returned for depth 0 on a drawn position that has legal moves
C4_Witness ==
  /\ GetBestMoveDone
  /\ entry.depth = 0
  /\ RootPosition.is_insufficient_material
  /\ Len(RootPosition.legal_moves) > 0
  /\ result.kind = "None"

MateScore == IF RootIsWhite THEN 20000 ELSE 0 - 20000
WorseThanMate(v) == IF RootIsWhite THEN v < MateScore ELSE v > MateScore
MatingMoves == {m \in RootMoves : Position(game, <<m>>).is_checkmate}

\* exactly one root move mates, every other leads to a non-terminal position
\* or to a terminal one that is worse for the mover
UniqueMate ==
  /\ entry.fn = "get_best_move"
  /\ entry.depth >= 1
  /\ ~RootPosition.is_game_over
  /\ Cardinality(MatingMoves) = 1
  /\ \A m \in RootMoves \ MatingMoves :
       \/ ~Position(game, <<m>>).is_game_over
       \/ WorseThanMate(evaluate_board(Position(game, <<m>>)))

\* C5 as stated: with a unique mating root move, get_best_move returns it for
\* every depth >= 1.
C5_ReturnsTheMate ==
  (pc = "done" /\ UniqueMate) => result.value \in MatingMoves

\* C5 as amended: with a unique mating root move and every other root move's
\* (depth-1)-ply minimax value strictly worse for the mover than the mate
\* score, get_best_move returns the mating move.
C5_ReturnsTheMateUnlessTied ==
  (pc = "done" /\ UniqueMate
     /\ \A m \in RootMoves \ MatingMoves : WorseThanMate(RootMoveValue(m)))
  => (result.kind = "move" /\ result.value \in MatingMoves)

\* the unique mate was returned by a depth-3 search that had alternatives
C5_Witness ==
  /\ pc = "done"
  /\ UniqueMate
  /\ entry.depth = 3
  /\ Cardinality(RootMoves) >= 2
  /\ \A m \in RootMoves \ MatingMoves : WorseThanMate(RootMoveValue(m))
  /\ result.value \in MatingMoves

LeafBestMoves ==
  LET val(m) == evaluate_board(Position(game, <<m>>))
      best == IF RootIsWhite THEN SetMax({val(m) : m \in RootMoves})
              ELSE SetMin({val(m) : m \in RootMoves})
  IN  {m \in RootMoves : val(m) = best}

\* C9 as stated: get_best_move with depth <= 0 scores each root move by the
\* leaf evaluation of the root's child, goes no deeper, returns a best-scoring
\* move and raises nothing.
C9_DepthZeroIsLeafEvaluation ==
  (entry.fn = "get_best_move" /\ entry.depth <= 0 /\ ~RootPosition.is_game_over) =>
    /\ pc # "error"
    /\ \A k \in 1..Len(log.entered) : Len(log.entered[k][1]) <= 1
    /\ pc = "done" => (result.kind = "move" /\ result.value \in LeafBestMoves)

IsProperPrefix(p, q) == Len(p) < Len(q) /\ SubSeq(q, 1, Len(p)) = p

DepthBounded ==
  \/ entry.fn = "minimax" /\ entry.depth >= 0
  \/ entry.fn = "get_best_move" /\ entry.depth >= 1

DepthBoundedSafety ==
  /\ pc # "error"
  /\ \A k \in 1..Len(log.entered) :
       LET path == log.entered[k][1]
           d == log.entered[k][2]
       IN  /\ d = entry.depth - Len(path)
           /\ d >= 0
           /\ (d = 0 \/ Position(game, path).is_game_over) =>
                \A j \in 1..Len(log.entered) : ~IsProperPrefix(path, log.entered[j][1])
  /\ \A e \in log.evaluated : e[2] = 0 \/ Position(game, e[1]).is_game_over
  /\ \A e \in log.evaluated : e[2] = entry.depth - Len(e[1])

\* C10: a search with depth d >= 0 evaluates at once when d = 0 or the
\* position is game-over, recurses only with d - 1, never enters a node more
\* than d plies below the call, evaluates leaves only at ply d or at game-over
\* positions, and terminates.
C10_DepthBounded ==
  /\ [](DepthBounded => DepthBoundedSafety)
  /\ (DepthBounded ~> pc = "done")

\* a depth-3 search has finished after stopping early at a game-over node
C10_Witness ==
  /\ pc = "done"
  /\ entry.fn = "minimax"
  /\ entry.depth = MaxDepth
  /\ \E e \in log.evaluated : e[2] > 0
  /\ \E e \in log.evaluated : e[2] = 0

(***************************************************************************)
(* C11: at every node visited during a search started by get_best_move,    *)
(* the maximizing flag of the minimax activation on that node is true      *)
(* exactly when White is the side to move in the node's position.          *)
(***************************************************************************)
C11_SideToMove ==
  entry.fn = "get_best_move" =>
    \A k \in 1..Len(frames) :
      frames[k].maximizing = (Position(game, frames[k].entry_stack).turn = WHITE)

\* three nested activations below a root move, with Black to move at the root
C11_Witness ==
  /\ entry.fn = "get_best_move"
  /\ ~root.is_white
  /\ pc = "mm_enter"
  /\ entry.depth >= 3
  /\ Len(frames) = 3
  /\ Top.maximizing

(***************************************************************************)
(* C12: when get_best_move has finished its root loop, the candidate list  *)
(* holds every legal root move whose value (the value minimax returned for *)
(* it) equals the best value, each once, and no other move; the list is    *)
(* determined by the values alone; the returned move is one of the list    *)
(* and every move of the list can be the one returned.                     *)
(***************************************************************************)
RootLoopFinished ==
  /\ entry.fn = "get_best_move"
  /\ root.i > Len(RootPosition.legal_moves)
  /\ pc \in {"gbm_loop", "done"}

\* the values minimax returned for the root moves, in enumeration order
ReturnedBest ==
  LET vals == {log.root_values[k] : k \in 1..Len(log.root_values)}
  IN  IF RootIsWhite THEN SetMax(vals) ELSE SetMin(vals)

TiedRootMoves ==
  {RootPosition.legal_moves[k] :
     k \in {j \in 1..Len(log.root_values) : log.root_values[j] = ReturnedBest}}

C12_CompleteTieSet ==
  RootLoopFinished =>
    /\ Len(log.root_values) = Len(RootPosition.legal_moves)
    /\ {root.best_moves[k] : k \in 1..Len(root.best_moves)} = TiedRootMoves
    /\ Len(root.best_moves) = Cardinality(TiedRootMoves)
    /\ root.best_value = ReturnedBest
    /\ entry.depth >= 1 =>
         TiedRootMoves = {m \in RootMoves : RootMoveValue(m) = BestRootValue}
    /\ pc = "gbm_loop" =>
         \A m \in TiedRootMoves :
           ENABLED (GetBestMoveChoose /\ result'.kind = "move" /\ result'.value = m)
    /\ pc = "done" => (result.kind = "move" /\ result.value \in TiedRootMoves)

\* two root moves tie for the best value below a worse one that was tried
\* first, and the tied move enumerated last is the one returned
C12_Witness ==
  /\ RootLoopFinished
  /\ pc = "done"
  /\ Cardinality(TiedRootMoves) >= 2
  /\ log.root_values[1] # ReturnedBest
  /\ result.value = RootPosition.legal_moves[Len(RootPosition.legal_moves)]
  /\ result.value # root.best_moves[1]

(***************************************************************************)
(* C13: on a board where each side has at most its starting count of every *)
(* piece type, get_captured_pieces lists for each colour exactly (starting *)
(* count - current count) entries of each of pawn, knight, bishop, rook    *)
(* and queen (starting counts 8, 2, 2, 2, 1), nothing else and never a     *)
(* king, even when a king is missing; on the starting position both lists  *)
(* are empty.                                                              *)
(***************************************************************************)
LetterOf(piece_type, color) ==
  LET white == <<"P", "N", "B", "R", "Q", "K">>
      black == <<"p", "n", "b", "r", "q", "k">>
  IN  IF color = WHITE THEN white[piece_type] ELSE black[piece_type]

OnBoard(board, piece_type, color) ==
  Cardinality({i \in 1..64 : board[i] = LetterOf(piece_type, color)})

StartCount(piece_type) == <<8, 2, 2, 2, 1, 1>>[piece_type]

AtMostStart(board) ==
  \A color \in BOOLEAN, pt \in PIECE_TYPES : OnBoard(board, pt, color) <= StartCount(pt)

EntriesOf(list, piece_type) == Cardinality({i \in 1..Len(list) : list[i] = piece_type})

C13_CapturedAccounting ==
  (c_pc = "done" /\ AtMostStart(c_board)) =>
    /\ \A color \in BOOLEAN :
         /\ \A pt \in {PAWN, KNIGHT, BISHOP, ROOK, QUEEN} :
              EntriesOf(c_captured[color], pt) = StartCount(pt) - OnBoard(c_board, pt, color)
         /\ EntriesOf(c_captured[color], KING) = 0
         /\ \A i \in 1..Len(c_captured[color]) : c_captured[color][i] \in PIECE_TYPES
    /\ c_board = StartBoard => c_captured = NoCaptured

\* the white king and a black rook are off the board: nothing is listed for
\* White, one rook for Black
C13_Witness ==
  /\ c_pc = "done"
  /\ AtMostStart(c_board)
  /\ OnBoard(c_board, KING, WHITE) = 0
  /\ c_captured[WHITE] = << >>
  /\ c_captured[BLACK] = <<ROOK>>

(***************************************************************************)
(* C17: minimax applies the legal moves of a node in the oracle's          *)
(* enumeration order (the next move applied is the one after the last,     *)
(* none is skipped or repeated); once beta <= alpha holds after a child    *)
(* returned, the node returns without applying another move; and every     *)
(* node entered lies in the tree the search without cutoffs visits.        *)
(***************************************************************************)
EnteredPaths == {log.entered[k][1] : k \in 1..Len(log.entered)}

\* depth the call on the node at `path` gets
DepthAt(path) == entry.depth - Len(path)

\* the search without cutoffs visits a node iff every node above it on the
\* path is not a base case and the path follows legal moves
RECURSIVE PlainVisits(_)
PlainVisits(path) ==
  \/ path = << >> /\ entry.fn = "minimax"
  \/ /\ path # << >>
     /\ Last(path) \in 1..Len(Position(game, Front(path)).legal_moves)
     /\ IF Front(path) = << >> /\ entry.fn = "get_best_move"
        THEN ~get_best_move_early(Position(game, << >>))
        ELSE /\ PlainVisits(Front(path))
             /\ ~(DepthAt(Front(path)) = 0 \/ Position(game, Front(path)).is_game_over)

InEnumerationOrder ==
  \A k \in 1..Len(log.entered) :
    LET path == log.entered[k][1]
    IN  /\ \A j \in 1..(k - 1) : log.entered[j][1] # path
        /\ (path # << >> /\ Last(path) > 1) =>
             \E j \in 1..(k - 1) :
               log.entered[j][1] = Append(Front(path), Last(path) - 1)

StopsAtCutoff ==
  (pc = "mm_loop" /\ Top.beta <= Top.alpha) =>
    (move_stack' = move_stack /\ frames' = Front(frames) /\ log'.pushes = log.pushes)

C17_CutoffBehaviour ==
  /\ [](InEnumerationOrder /\ \A path \in EnteredPaths : PlainVisits(path))
  /\ [][StopsAtCutoff]_vars

\* a finished search cut off a node whose later sibling the search without
\* cutoffs visits, and did not enter that sibling
C17_Witness ==
  /\ pc = "done"
  /\ entry.fn = "minimax"
  /\ log.cutoffs > 0
  /\ \E path \in EnteredPaths :
       /\ path # << >>
       /\ PlainVisits(Append(Front(path), Last(path) + 1))
       /\ Append(Front(path), Last(path) + 1) \notin EnteredPaths

(***************************************************************************)
(* C18: for every window alpha < beta, the value v a call of minimax       *)
(* returns and the exact value x of the same node without cutoffs satisfy: *)
(* alpha < v < beta implies v = x, v <= alpha implies x <= v, and          *)
(* v >= beta implies x >= v.  Checked for the examined call and for every  *)
(* call made below it.                                                     *)
(***************************************************************************)
FailSoft(v, x, alpha, beta) ==
  /\ (alpha < v /\ v < beta) => v = x
  /\ v <= alpha => x <= v
  /\ v >= beta => x >= v

JustReturned == pc \in {"mm_after", "gbm_after"} \/ (pc = "done" /\ entry.fn = "minimax")

C18_FailSoftWindow ==
  (JustReturned /\ log.returned_call.depth >= 0) =>
    LET c == log.returned_call
    IN  /\ c.alpha < c.beta
        /\ FailSoft(ret, PlainMinimax(game, log.returned_from, c.depth, c.maximizing),
                    c.alpha, c.beta)

\* a call with a narrow window failed high: it returned a value at or above
\* beta that is below the exact value
C18_Witness ==
  /\ pc = "done"
  /\ entry.fn = "minimax"
  /\ entry.beta < PosInf
  /\ ret >= entry.beta
  /\ ret < PlainMinimax(game, << >>, entry.depth, entry.maximizing)

(***************************************************************************)
(* C19: for every position with exactly one king per side that is not      *)
(* checkmate, the value evaluate_board returns lies strictly between       *)
(* -20000 and +20000; the checkmate scores -20000 and +20000 lie strictly  *)
(* inside the root window (-inf, +inf).                                    *)
(***************************************************************************)
OneKingEach(board) ==
  /\ Cardinality({i \in 1..64 : board[i] = "K"}) = 1
  /\ Cardinality({i \in 1..64 : board[i] = "k"}) = 1

C19_MateScoreDominance ==
  e_pc = "done" =>
    /\ (OneKingEach(e_pos.board) /\ ~e_pos.is_checkmate) =>
         (0 - 20000 < e_score /\ e_score < 20000)
    /\ e_pos.is_checkmate => (NegInf < e_score /\ e_score < PosInf)

\* the side with nine queens, to move with the most legal moves a position
\* can have, is scored above 10000 and below the mate score
C19_Witness ==
  /\ e_pc = "done"
  /\ e_pos.board = HeavyWhiteBoard
  /\ e_pos.turn = WHITE
  /\ Len(e_pos.legal_moves) = MaxLegalMoves
  /\ ~e_pos.is_game_over
  /\ e_score > 10000
  /\ e_score < 20000

(***************************************************************************)
(* C20: at a position that is game-over only by the seventy-five-move rule *)
(* or fivefold repetition (not checkmate, stalemate or insufficient        *)
(* material) minimax stops even with depth remaining: it applies no move   *)
(* there and returns the static material + positional + mobility score of  *)
(* the position, not the draw score 0.                                     *)
(***************************************************************************)
OtherDraw(pos) ==
  /\ pos.is_game_over
  /\ ~pos.is_checkmate
  /\ ~pos.is_stalemate
  /\ ~pos.is_insufficient_material

C20_OtherDrawsScoredStatically ==
  /\ \A k \in 1..Len(log.entered) :
       LET path == log.entered[k][1]
       IN  path # << >> => ~OtherDraw(Position(game, Front(path)))
  /\ (JustReturned /\ OtherDraw(Position(game, log.returned_from))) =>
       ret = FormulaScore(Position(game, log.returned_from))

\* a node drawn by such a rule was reached with depth remaining and a score
\* different from 0 came back from it
C20_Witness ==
  /\ pc = "mm_after"
  /\ OtherDraw(Position(game, log.returned_from))
  /\ log.returned_call.depth > 0
  /\ Len(Position(game, log.returned_from).legal_moves) > 0
  /\ ret # 0
  /\ ret = FormulaScore(Position(game, log.returned_from))

(***************************************************************************)
(* C15: when the game was reset while a search was in flight, the          *)
(* completion of that stale search leaves the new game alone: the moves on *)
(* the game's board, the last-move fields and is_thinking stay as they     *)
(* were.                                                                   *)
(***************************************************************************)
GameBoard == boards[state.board]

StaleSearchCompletes ==
  /\ executor # << >>
  /\ Head(executor).stale
  /\ Len(executor') < Len(executor)

C15_StaleResultDiscarded ==
  [][StaleSearchCompletes =>
       /\ boards'[state'.board] = GameBoard
       /\ state'.last_move_from = state.last_move_from
       /\ state'.last_move_to = state.last_move_to
       /\ state'.is_thinking = state.is_thinking]_vars

(***************************************************************************)
(* C16: a search in flight works on a Board object of its own: it is not   *)
(* the game's board nor another search's, the search's pushes and pops     *)
(* leave the game's board as it is, and until the search's completion      *)
(* callback nothing but the search itself touches the searched object.     *)
(***************************************************************************)
PrivateBoards ==
  \A k \in 1..Len(executor) :
    /\ executor[k].board # state.board
    /\ executor[k].board \in DOMAIN boards
    /\ \A j \in 1..Len(executor) : j # k => executor[j].board # executor[k].board

SearchStep == state' = state /\ executor' = executor /\ boards' # boards

OwnedDuringSearch ==
  /\ SearchStep => (state.board \in DOMAIN boards' /\ boards'[state.board] = GameBoard)
  /\ \A id \in TaskBoards(App) :
       (id \in DOMAIN boards' /\ boards'[id] # boards[id]) =>
         (SearchStep /\ id = Head(executor).board)

C16_ExclusiveOwnership == []PrivateBoards /\ [][OwnedDuringSearch]_vars

\* the running search has a move pushed on its copy while the game's board
\* still shows the position the search started from
C16_Witness ==
  /\ executor # << >>
  /\ ~Head(executor).stale
  /\ state.is_thinking
  /\ Len(boards[Head(executor).board]) > Head(executor).base
  /\ Len(GameBoard) = Head(executor).base

(***************************************************************************)
(* C21: for a position P and its colour mirror P' (every piece on the      *)
(* square of the same file and rank 7 - r with its colour swapped, the     *)
(* other side to move, the same number of legal moves and the same         *)
(* terminal status), evaluate_board(P') = -evaluate_board(P).              *)
(***************************************************************************)
MirrorPosition(pos) == [pos EXCEPT !.board = Mirror(@), !.turn = ~@]

C21_MirrorAntisymmetry ==
  e_pc = "done" => evaluate_board(MirrorPosition(e_pos)) = 0 - e_score

\* a position that is not its own mirror image, with a score that is not 0
C21_Witness ==
  /\ e_pc = "done"
  /\ e_pos.board = RookUpBoard
  /\ e_pos.turn = WHITE
  /\ ~e_pos.is_game_over
  /\ e_score > 0
  /\ evaluate_board(MirrorPosition(e_pos)) < 0

(***************************************************************************)
(* C22: captured-piece accounting under promotion.  When a side has more   *)
(* pieces of a type than it started with, get_captured_pieces lists no     *)
(* entry of that type for it (every type gets max(0, start - on board)     *)
(* entries); after a promotion the pawn that promoted is listed among the  *)
(* captured pawns of its own colour although it was never captured, so the *)
(* list of the promoting colour differs from the pieces it really lost.    *)
(***************************************************************************)
TypeCounts(list) == [pt \in PIECE_TYPES |-> EntriesOf(list, pt)]

OverCount(board, color) ==
  {pt \in PIECE_TYPES \ {KING} : OnBoard(board, pt, color) > StartCount(pt)}

C22_PromotionAccounting ==
  c_pc = "done" =>
    /\ \A color \in BOOLEAN :
         \A pt \in PIECE_TYPES \ {KING} :
           EntriesOf(c_captured[color], pt) =
             Max(0, StartCount(pt) - OnBoard(c_board, pt, color))
    /\ c_history.kind = "promotion" =>
         LET color == c_history.color
         IN  /\ EntriesOf(c_captured[color], PAWN) =
                  EntriesOf(c_history.lost[color], PAWN) + 1
             /\ TypeCounts(c_captured[color]) # TypeCounts(c_history.lost[color])

\* a white pawn has promoted to a second queen by taking the knight on b8:
\* no queen entry, the pawn is listed as captured, black's knight is listed
C22_Witness ==
  /\ c_pc = "done"
  /\ c_history.kind = "promotion"
  /\ c_history.color = WHITE
  /\ c_history.lost[WHITE] = << >>
  /\ QUEEN \in OverCount(c_board, WHITE)
  /\ OnBoard(c_board, QUEEN, WHITE) = 2
  /\ c_captured[WHITE] = <<PAWN>>
  /\ c_captured[BLACK] = <<KNIGHT>>

(***************************************************************************)
(* C23: single search in flight.  In every reachable state of ChessApp at  *)
(* most one search is submitted and not yet completed, and is_thinking is  *)
(* true exactly while such a search is in flight.                          *)
(***************************************************************************)
C23_SingleSearchInFlight ==
  /\ Len(executor) <= 1
  /\ state.is_thinking <=> executor # << >>

(***************************************************************************)
(* C24: input lock.  While is_thinking is true or the game is over, a      *)
(* cursor action or action_select leaves the game state (board, cursor,    *)
(* selection, last move) and the searches as they are; action_select also  *)
(* changes nothing when it is not the player's turn, so it pushes a move   *)
(* only on the player's turn with is_thinking false.                       *)
(***************************************************************************)
CursorAction == ActionMoveUp \/ ActionMoveDown \/ ActionMoveLeft \/ ActionMoveRight

GameUnchanged ==
  /\ state' = state
  /\ boards'[state'.board] = GameBoard
  /\ executor' = executor

C24_InputLock ==
  [][/\ (CursorAction /\ (state.is_thinking \/ is_game_over(App))) => GameUnchanged
     /\ (ActionSelect /\ (state.is_thinking \/ is_game_over(App) \/ ~is_player_turn(App)))
          => GameUnchanged
     /\ (ActionSelect /\ boards'[state'.board] # GameBoard)
          => /\ is_player_turn(App)
             /\ ~state.is_thinking
             /\ ~is_game_over(App)
             /\ Len(boards'[state'.board]) = Len(GameBoard) + 1]_vars

\* a search is in flight, the cursor is away from every edge and the select
\* key and the cursor keys are pressed
C24_Witness ==
  /\ a_pc = "run"
  /\ state.is_thinking
  /\ executor # << >>
  /\ state.cursor_square \in {sq \in SQUARES : sq % 8 \in 1..6 /\ sq \in 8..55}
  /\ ENABLED ActionMoveUp
  /\ ENABLED ActionMoveLeft
  /\ ENABLED ActionSelect

(***************************************************************************)
(* C25: the tic-tac-toe AI never loses.  From create_initial_state, after  *)
(* any sequence of make_move calls with indices 0..8, the winner is never  *)
(* "You Win!"; a finished game has winner "You Lose!" or "Tie Game!".      *)
(***************************************************************************)
C25_AiNeverLoses ==
  /\ t_state.winner # "You Win!"
  /\ check_win(t_state.board, HUMAN_PLAYER) = NoIndex
  /\ t_state.is_game_over => t_state.winner \in {"You Lose!", "Tie Game!"}
  /\ ~t_state.is_game_over => t_state.winner = NoWinner

\* the player left a line open and the AI took it
C25_Witness ==
  /\ t_pc = "run"
  /\ t_state.is_game_over
  /\ t_state.winner = "You Lose!"
  /\ check_win(t_state.board, AI_PLAYER) # NoIndex
  /\ t_state.winning_cells = WIN_COMBOS[check_win(t_state.board, AI_PLAYER) + 1]

(***************************************************************************)
(* C26: tic-tac-toe turn alternation.  A marked cell never changes;        *)
(* make_move on an occupied cell or on a finished game returns the state   *)
(* unchanged; the number of O marks minus the number of X marks is 0 or 1, *)
(* and 0 while the game is not over; an accepted human move is answered by *)
(* exactly one AI move unless the human move ended the game.               *)
(***************************************************************************)
Marks(board, player) == Cardinality({i \in DOMAIN board : board[i] = player})

TicBalance ==
  t_pc = "run" =>
    /\ Marks(t_state.board, Player_O) - Marks(t_state.board, Player_X) \in {0, 1}
    /\ ~t_state.is_game_over =>
         Marks(t_state.board, Player_O) = Marks(t_state.board, Player_X)
    /\ \A index \in 0..8 :
         (t_state.is_game_over \/ ~is_int(t_state.board[index + 1]))
           => make_move(t_state, index) = t_state

TicStep ==
  /\ \A i \in DOMAIN t_state.board :
       ~is_int(t_state.board[i]) => t_state'.board[i] = t_state.board[i]
  /\ t_state'.board # t_state.board =>
       /\ ~t_state.is_game_over
       /\ Marks(t_state'.board, Player_O) = Marks(t_state.board, Player_O) + 1
       /\ \/ Marks(t_state'.board, Player_X) = Marks(t_state.board, Player_X) + 1
          \/ /\ Marks(t_state'.board, Player_X) = Marks(t_state.board, Player_X)
             /\ t_state'.is_game_over
             /\ t_state'.winner \in {"You Win!", "Tie Game!"}
  /\ t_state'.board = t_state.board => t_state' = t_state

C26_TurnAlternation == []TicBalance /\ [][TicStep]_vars

\* the player's fifth mark filled the board: one O more than X, game over
C26_Witness ==
  /\ t_pc = "run"
  /\ t_state.is_game_over
  /\ t_state.winner = "Tie Game!"
  /\ Marks(t_state.board, Player_O) = 5
  /\ Marks(t_state.board, Player_X) = 4

(***************************************************************************)
(* C27: snake 180-degree turn prevention.  Across any sequence of          *)
(* change_direction and tick calls the velocity with which the snake moves *)
(* in one tick is never the exact opposite of the velocity with which it   *)
(* moved in the previous tick.                                             *)
(***************************************************************************)
Opposite(v) == Pos(0 - v.x, 0 - v.y)

SnakeMoves == s_hist'.ticks = s_hist.ticks + 1

C27_NoReversal ==
  [][(SnakeMoves /\ s_hist.moved # NoVelocity)
       => s_hist'.moved # Opposite(s_hist.moved)]_vars

(***************************************************************************)
(* C28: snake structural invariant.  In every state reachable through      *)
(* tick, change_direction and toggle_pause the head is the first cell, the *)
(* snake has at most max_cells cells, max_cells is 6 + score, every cell   *)
(* lies inside the board (the head wraps at the edges), and the cells are  *)
(* pairwise distinct whenever the game is not over.                        *)
(***************************************************************************)
C28_SnakeStructure ==
  s_pc = "run" =>
    LET snake == s_state.snake
    IN  /\ Len(snake.cells) >= 1
        /\ snake.head = snake.cells[1]
        /\ Len(snake.cells) <= snake.max_cells
        /\ snake.max_cells = 6 + s_state.score
        /\ \A i \in 1..Len(snake.cells) :
             /\ snake.cells[i].x \in 0..(BoardConfig.columns - 1)
             /\ snake.cells[i].y \in 0..(BoardConfig.rows - 1)
        /\ ~s_state.is_game_over => Cardinality(CellSet(snake.cells)) = Len(snake.cells)

\* the snake has gone down over the bottom edge and come in at the top
C28_Witness ==
  /\ s_pc = "run"
  /\ ~s_state.is_game_over
  /\ s_state.snake.velocity = Pos(0, 1)
  /\ s_state.snake.head.y = 0
  /\ s_state.snake.cells[2].y = BoardConfig.rows - 1
  /\ s_hist.moved = Pos(0, 1)

(***************************************************************************)
(* C29: snake apple placement.  In every reachable state the apple lies    *)
(* inside the board and, if the board has a cell the snake does not        *)
(* occupy, not on a snake cell; eating the apple raises the score by       *)
(* exactly 1 and puts the apple on a free cell.                            *)
(***************************************************************************)
AppleWellPlaced ==
  s_pc = "run" =>
    /\ s_state.apple \in AllPositions(BoardConfig)
    /\ AllPositions(BoardConfig) \ CellSet(s_state.snake.cells) # {}
         => s_state.apple \notin CellSet(s_state.snake.cells)

Eats ==
  /\ SnakeMoves
  /\ s_state'.snake.head = s_state.apple

AppleStep ==
  /\ Eats => /\ s_state'.score = s_state.score + 1
             /\ s_state'.apple \in AllPositions(BoardConfig) \ CellSet(s_state'.snake.cells)
             /\ s_state'.apple # s_state.apple
  /\ ~Eats => /\ s_state'.score = s_state.score
              /\ s_state'.apple = s_state.apple

C29_ApplePlacement == []AppleWellPlaced /\ [][AppleStep]_vars

\* the snake has eaten twice and grown to eight cells
C29_Witness ==
  /\ s_pc = "run"
  /\ s_state.score = 2
  /\ Len(s_state.snake.cells) = 8
  /\ ~s_state.is_game_over
  /\ s_state.apple \notin CellSet(s_state.snake.cells)

(***************************************************************************)
(* C30: tetris active-piece validity.  In every state reachable through    *)
(* move_left, move_right, move_down, try_rotate, do_hard_drop and          *)
(* toggle_pause, a current piece can be placed at its position (no filled  *)
(* cell overlaps a locked cell or lies outside the left, right or bottom   *)
(* wall), and current_piece is None exactly when the game is over.  As     *)
(* stated, every move or rotation that would break this leaves the state   *)
(* unchanged (C30_BlockedMoveUnchanged); as the code has it, that is so    *)
(* for move_left, move_right and try_rotate, while a move_down that cannot *)
(* descend locks the piece (C30_ActivePieceValid).                         *)
(***************************************************************************)
Fits(piece, position, board) ==
  \A row_idx \in 0..(Len(piece.shape) - 1) :
    \A col_idx \in 0..(Len(piece.shape[row_idx + 1]) - 1) :
      piece.shape[row_idx + 1][col_idx + 1] # 0 =>
        /\ position.x + col_idx \in 0..(TetrisConfig.width - 1)
        /\ position.y + row_idx <= TetrisConfig.height - 1
        /\ position.y + row_idx >= 0 =>
             board[position.y + row_idx + 1][position.x + col_idx + 1] = 0

Shifted(dx, dy) == tetris_Position(tet_state.position.x + dx, tet_state.position.y + dy)

PieceValid ==
  /\ tet_state.current_piece = NoPiece <=> tet_state.is_game_over
  /\ tet_state.current_piece # NoPiece =>
       Fits(tet_state.current_piece, tet_state.position, tet_state.board)

BlockedSidewaysUnchanged ==
  tet_state.current_piece # NoPiece =>
    /\ ~Fits(tet_state.current_piece, Shifted(0 - 1, 0), tet_state.board)
         => move_left(tet_state, TetrisConfig) = tet_state
    /\ ~Fits(tet_state.current_piece, Shifted(1, 0), tet_state.board)
         => move_right(tet_state, TetrisConfig) = tet_state
    /\ ~Fits(rotate_piece(tet_state.current_piece), tet_state.position, tet_state.board)
         => try_rotate(tet_state, TetrisConfig) = tet_state

BlockedDown ==
  /\ tet_state.current_piece # NoPiece
  /\ ~Fits(tet_state.current_piece, Shifted(0, 1), tet_state.board)

WellShaped(board) ==
  /\ Len(board) = TetrisConfig.height
  /\ \A y \in 1..Len(board) : Len(board[y]) = TetrisConfig.width

NoCompleteRow(board) ==
  \A y \in 1..Len(board) : \E x \in 1..Len(board[y]) : board[y][x] = 0

BoardClean == tet_pc = "run" => WellShaped(tet_state.board) /\ NoCompleteRow(tet_state.board)

\* a step that locks the active piece
LockStep == tet_state.current_piece # NoPiece /\ tet_state'.board # tet_state.board

\* how far the active piece can fall before it rests
Descent ==
  CHOOSE d \in 0..TetrisHeight :
    /\ ~Fits(tet_state.current_piece, Shifted(0, d + 1), tet_state.board)
    /\ \A k \in 0..d : Fits(tet_state.current_piece, Shifted(0, k), tet_state.board)

\* the cell in row y, column x (counted from 1) is covered by the piece once
\* it has fallen by d
Covered(y, x, d) ==
  LET shape == tet_state.current_piece.shape
      r == y - 1 - (tet_state.position.y + d)
      c == x - 1 - tet_state.position.x
  IN  r \in 0..(Len(shape) - 1) /\ c \in 0..(Len(shape[1]) - 1) /\ shape[r + 1][c + 1] # 0

\* the rows that are complete once the piece is merged where it rests
CompleteAfterMerge(d) ==
  {y \in 1..TetrisHeight :
     \A x \in 1..TetrisWidth : tet_state.board[y][x] # 0 \/ Covered(y, x, d)}

ClearedByLock ==
  \E d \in {Descent} : \E complete \in {CompleteAfterMerge(d)} :
    LET lines == Cardinality(complete)
        below(y) == Cardinality({z \in complete : z > y})
    IN  /\ tet_state'.lines_cleared = tet_state.lines_cleared + lines
        /\ WellShaped(tet_state'.board)
        /\ NoCompleteRow(tet_state'.board)
        /\ \A y \in 1..lines : \A x \in 1..TetrisWidth : tet_state'.board[y][x] = 0
        /\ \A y \in (1..TetrisHeight) \ complete : \A x \in 1..TetrisWidth :
             IF Covered(y, x, d)
             THEN tet_state'.board[y + below(y)][x] # 0
             ELSE tet_state'.board[y + below(y)][x] = tet_state.board[y][x]

====
